---- MODULE Spec2Model ----
(***************************************************************************)
(* Timecard / break-sheet reconciliation (lib/csv-utils, lib/name-matcher). *)
(*                                                                         *)
(* Optional values (T | null) are sequences of length at most one: None is *)
(* null and Some(v) is the value v.  Date values are whole minutes of the  *)
(* reference day: parseTimeString yields dates whose seconds and           *)
(* milliseconds are zero, so differenceInMinutes is the integer            *)
(* difference of the two minute counts.                                    *)
(***************************************************************************)
EXTENDS Integers, Sequences, FiniteSets, TLC

VARIABLES
    pc,                 \* which operation has run on the inputs below
    gap,                \* compareBreakRecords: gap argument (TimecardGap | null)
    breakEntry,         \* compareBreakRecords: breakEntry argument (BreakSheetEntry | null)
    toleranceMinutes,   \* compareBreakRecords / generateDiscrepancyReport: tolerance
    comparison,         \* compareBreakRecords: returned record (None before the call)
    timecardEntries,    \* TimecardEntry[] handed to detectTimecardGaps / generateDiscrepancyReport
    targetDate,         \* the targetDate argument
    gaps,               \* detectTimecardGaps: returned TimecardGap[]
    breakSheetEntries,  \* BreakSheetEntry[] handed to generateDiscrepancyReport
    ratio,              \* fuzzball.token_sort_ratio, as a table over pairs of strings
    report,             \* generateDiscrepancyReport: returned report (None before the call)
    nameArg,            \* matchEmployeeByName: timecardName argument
    namesArg,           \* matchEmployeeByName: breakSheetNames argument (the pool)
    thresholdArg,       \* matchEmployeeByName: threshold argument
    nameMatchResult,    \* matchEmployeeByName: returned NameMatchResult (None before the call)
    nameIn,             \* normalizeEmployeeName: name argument
    nameOther,          \* normalizeEmployeeName: name argument of a second call
    normOnce,           \* normalizeEmployeeName(nameIn) (None before the call)
    normTwice,          \* normalizeEmployeeName(normalizeEmployeeName(nameIn)) (None before the call)
    normOther,          \* normalizeEmployeeName(nameOther) (None before the call)
    csvRows,            \* parseTimecardCSV: results.data, the rows Papa.parse hands over
    parsedEntries,      \* parseTimecardCSV: resolved entries (None before the call)
    durationText,       \* parseBreakDuration: text argument
    durationResult,     \* parseBreakDuration: returned minutes or null (None before the call)
    timecardFile,       \* page state timecardFile: the selected file, as Papa.parse reads it
    breakSheetFile,     \* page state breakSheetFile: the selected file, as Papa.parse reads it
    timecardPromise,    \* the promise parseTimecardCSV(timecardFile) returned
    breakSheetPromise,  \* the promise parseBreakSheetCSV(breakSheetFile) returned
    closure,            \* handleCompare: the files the call in progress closed over (None: no call)
    loading,            \* page state loading
    error,              \* page state error (string | null)
    pageReport,         \* page state report (DiscrepancyReport | null)
    heap                \* the arrays the program holds, by reference: heap[r] is array r

matchVars == <<nameArg, namesArg, thresholdArg, nameMatchResult>>

nameVars == <<nameIn, nameOther, normOnce, normTwice, normOther>>

csvVars == <<csvRows, parsedEntries>>

durationVars == <<durationText, durationResult>>

fileVars == <<timecardFile, breakSheetFile, timecardPromise, breakSheetPromise, closure>>

pageVars == <<loading, error, pageReport>>

vars == <<pc, gap, breakEntry, toleranceMinutes, comparison,
          timecardEntries, targetDate, gaps, breakSheetEntries, ratio, report,
          matchVars, nameVars, csvVars, durationVars, fileVars, pageVars, heap>>

\* matchEmployeeByName has not been called on its own
MatchIdle ==
    /\ nameArg = <<>>
    /\ namesArg = <<>>
    /\ thresholdArg = 0
    /\ nameMatchResult = <<>>

\* normalizeEmployeeName has not been called on its own
NameIdle ==
    /\ nameIn = <<>>
    /\ nameOther = <<>>
    /\ normOnce = <<>>
    /\ normTwice = <<>>
    /\ normOther = <<>>

\* parseTimecardCSV has not been called
CsvIdle ==
    /\ csvRows = <<>>
    /\ parsedEntries = <<>>

\* parseBreakDuration has not been called on its own
DurationIdle ==
    /\ durationText = <<>>
    /\ durationResult = <<>>

\* no file is selected and no ingestion has been started
FileIdle ==
    /\ timecardFile = <<>>
    /\ breakSheetFile = <<>>
    /\ timecardPromise = <<>>
    /\ breakSheetPromise = <<>>
    /\ closure = <<>>

\* the page as React.useState initialises it
PageIdle ==
    /\ loading = FALSE
    /\ error = <<>>
    /\ pageReport = <<>>

\* no array is followed by reference
HeapIdle == heap = <<>>

None == <<>>

Some(v) == <<v>>

IsNull(o) == o = <<>>

Val(o) == o[1]

\* a ?? b
Coalesce(a, b) == IF IsNull(a) THEN b ELSE a

Abs(n) == IF n < 0 THEN -n ELSE n

(***************************************************************************)
(* Bounds of the checked input space.                                      *)
(***************************************************************************)
MaxGapMinutes == 28

MaxActualMinutes == 33

MaxTolerance == 5

\* detectTimecardGaps keeps a gap only when gapMinutes > GapFloor
GapFloor == 10

\* the date app/page.tsx reconciles, and another pay date
TargetDate == "12/24/2025"

OtherDate == "12/25/2025"

\* minutes a break sheet declares: "15 minutes", "30 minutes", "30 and 15"
DeclaredDurations == {None, Some(0), Some(15), Some(30), Some(45)}

ActualMinutes == {None} \cup {Some(m) : m \in 0..MaxActualMinutes}

\* BreakSheetEntry.breakTimeRange: null, or a range whose actualMinutes may be null
TimeRanges == {None} \cup {Some([actualMinutes |-> a]) : a \in ActualMinutes}

CompareBreakEntries ==
    {None} \cup
    {Some([driverName |-> <<"d">>, breakDuration |-> d, breakTimeRange |-> r]) :
        d \in DeclaredDurations, r \in TimeRanges}

CompareGaps ==
    {None} \cup
    {Some([fileNumber |-> "f1", employeeName |-> <<"a">>, gapMinutes |-> g]) :
        g \in (GapFloor + 1)..MaxGapMinutes}

(***************************************************************************)
(* compareBreakRecords                                                     *)
(***************************************************************************)

\* faulty variant: || in place of ??, so that a range of 0 minutes falls back
LoggedMinutes_FalsyFallback(be) ==
    LET a == IF IsNull(be.breakTimeRange) THEN None
             ELSE Val(be.breakTimeRange).actualMinutes
    IN  IF IsNull(a) \/ Val(a) = 0 THEN be.breakDuration ELSE a

\* breakEntry.breakTimeRange?.actualMinutes ?? breakEntry.breakDuration
LoggedMinutes(be) ==
    Coalesce(IF IsNull(be.breakTimeRange) THEN None
             ELSE Val(be.breakTimeRange).actualMinutes,
             be.breakDuration)

\* loggedMinutes ? -loggedMinutes : null   (0 is falsy)
NegatedIfTruthy(logged) ==
    IF IsNull(logged) \/ Val(logged) = 0 THEN None ELSE Some(-Val(logged))

\* faulty variant: difference < toleranceMinutes
CompareBoth_StrictTolerance(g, be, tol) ==
    LET gapMinutes == g.gapMinutes
        loggedMinutes == LoggedMinutes(be)
    IN  IF IsNull(loggedMinutes)
        THEN [status |-> "warning", discrepancyMinutes |-> None]
        ELSE LET difference == Abs(gapMinutes - Val(loggedMinutes))
             IN  IF difference < tol
                 THEN [status |-> "match", discrepancyMinutes |-> Some(0)]
                 ELSE [status |-> "mismatch",
                       discrepancyMinutes |-> Some(gapMinutes - Val(loggedMinutes))]

\* faulty variant: the mismatch reports the absolute difference
CompareBoth_UnsignedDifference(g, be, tol) ==
    LET gapMinutes == g.gapMinutes
        loggedMinutes == LoggedMinutes(be)
    IN  IF IsNull(loggedMinutes)
        THEN [status |-> "warning", discrepancyMinutes |-> None]
        ELSE LET difference == Abs(gapMinutes - Val(loggedMinutes))
             IN  IF difference <= tol
                 THEN [status |-> "match", discrepancyMinutes |-> Some(0)]
                 ELSE [status |-> "mismatch", discrepancyMinutes |-> Some(difference)]

\* faulty variant: no null check, a null loggedMinutes counts as 0 in the arithmetic
CompareBoth_NoNullCheck(g, be, tol) ==
    LET gapMinutes == g.gapMinutes
        loggedMinutes == Coalesce(LoggedMinutes(be), Some(0))
        difference == Abs(gapMinutes - Val(loggedMinutes))
    IN  IF difference <= tol
        THEN [status |-> "match", discrepancyMinutes |-> Some(0)]
        ELSE [status |-> "mismatch",
              discrepancyMinutes |-> Some(gapMinutes - Val(loggedMinutes))]

\* Case 1: both gap and break entry exist
CompareBoth(g, be, tol) ==
    LET gapMinutes == g.gapMinutes
        loggedMinutes == LoggedMinutes(be)
    IN  IF IsNull(loggedMinutes)
        THEN [status |-> "warning", discrepancyMinutes |-> None]
        ELSE LET difference == Abs(gapMinutes - Val(loggedMinutes))
             IN  IF difference <= tol
                 THEN [status |-> "match", discrepancyMinutes |-> Some(0)]
                 ELSE [status |-> "mismatch",
                       discrepancyMinutes |-> Some(gapMinutes - Val(loggedMinutes))]

\* Case 2: gap exists but no break entry
CompareGapOnly(g) ==
    [status |-> "deletion", discrepancyMinutes |-> Some(g.gapMinutes)]

\* Case 3: break entry exists but no gap
CompareBreakOnly(be) ==
    [status |-> "warning", discrepancyMinutes |-> NegatedIfTruthy(LoggedMinutes(be))]

\* faulty variant: the status the summary counts as noBreakRequired
CompareNeither_Addition == [status |-> "addition", discrepancyMinutes |-> None]

\* Case 4: neither gap nor break entry
CompareNeither == [status |-> "match", discrepancyMinutes |-> None]

compareBreakRecords(g, be, tol) ==
    IF ~IsNull(g) /\ ~IsNull(be) THEN CompareBoth(Val(g), Val(be), tol)
    ELSE IF ~IsNull(g) /\ IsNull(be) THEN CompareGapOnly(Val(g))
    ELSE IF IsNull(g) /\ ~IsNull(be) THEN CompareBreakOnly(Val(be))
    ELSE CompareNeither

(***************************************************************************)
(* detectTimecardGaps                                                      *)
(***************************************************************************)

\* entries.filter((e) => e.payDate === targetDate)
FilterByDate(entries, date) ==
    SelectSeq(entries, LAMBDA e : e.payDate = date)

\* A Map<string, TimecardEntry[]> is the sequence of its [key, value] pairs in
\* insertion order, the order a for..of over the Map visits them.
MapHas(m, k) == \E i \in 1..Len(m) : m[i].key = k

MapGet(m, k) == m[CHOOSE i \in 1..Len(m) : m[i].key = k].value

\* Map.set: a present key keeps its position, a new key goes last
MapSet(m, k, v) ==
    IF MapHas(m, k)
    THEN [i \in 1..Len(m) |-> IF m[i].key = k THEN [key |-> k, value |-> v] ELSE m[i]]
    ELSE Append(m, [key |-> k, value |-> v])

\* for (const entry of dateEntries) { existing = map.get(fileNumber) || [];
\*   existing.push(entry); map.set(fileNumber, existing) }
RECURSIVE GroupInto(_, _)
GroupInto(m, entries) ==
    IF entries = <<>> THEN m
    ELSE LET entry == Head(entries)
             existing == IF MapHas(m, entry.fileNumber)
                         THEN MapGet(m, entry.fileNumber) ELSE <<>>
         IN  GroupInto(MapSet(m, entry.fileNumber, Append(existing, entry)),
                       Tail(entries))

GroupByFileNumber(entries) == GroupInto(<<>>, entries)

\* Array.prototype.sort is stable: e goes behind every element whose timeIn is
\* not greater than its own.
RECURSIVE InsertByTimeIn(_, _)
InsertByTimeIn(sorted, e) ==
    IF sorted = <<>> THEN <<e>>
    ELSE IF Val(Head(sorted).timeIn) - Val(e.timeIn) > 0
         THEN <<e>> \o sorted
         ELSE <<Head(sorted)>> \o InsertByTimeIn(Tail(sorted), e)

RECURSIVE SortInto(_, _)
SortInto(sorted, rest) ==
    IF rest = <<>> THEN sorted
    ELSE SortInto(InsertByTimeIn(sorted, Head(rest)), Tail(rest))

\* employeeEntries.filter((e) => e.timeIn !== null).sort((a, b) => a.timeIn - b.timeIn)
SortedByTimeIn(employeeEntries) ==
    SortInto(<<>>, SelectSeq(employeeEntries, LAMBDA e : ~IsNull(e.timeIn)))

\* differenceInMinutes(later, earlier) on minute-aligned dates
differenceInMinutes(later, earlier) == later - earlier

\* faulty variant: gaps of exactly GapFloor minutes are kept
PairGap_AtLeastFloor(fileNumber, currentEntry, nextEntry) ==
    IF IsNull(currentEntry.timeOut) \/ IsNull(nextEntry.timeIn) THEN <<>>
    ELSE LET gapMinutes ==
                 differenceInMinutes(Val(nextEntry.timeIn), Val(currentEntry.timeOut))
         IN  IF gapMinutes >= GapFloor
             THEN <<[employeeName |-> currentEntry.payrollName,
                     fileNumber |-> fileNumber,
                     gapStart |-> Val(currentEntry.timeOut),
                     gapEnd |-> Val(nextEntry.timeIn),
                     gapMinutes |-> gapMinutes]>>
             ELSE <<>>

\* One iteration of the inner loop: the gaps pushed for sorted[i], sorted[i + 1]
PairGap(fileNumber, currentEntry, nextEntry) ==
    IF IsNull(currentEntry.timeOut) \/ IsNull(nextEntry.timeIn) THEN <<>>
    ELSE LET gapMinutes ==
                 differenceInMinutes(Val(nextEntry.timeIn), Val(currentEntry.timeOut))
         IN  IF gapMinutes > GapFloor
             THEN <<[employeeName |-> currentEntry.payrollName,
                     fileNumber |-> fileNumber,
                     gapStart |-> Val(currentEntry.timeOut),
                     gapEnd |-> Val(nextEntry.timeIn),
                     gapMinutes |-> gapMinutes]>>
             ELSE <<>>

\* for (let i = 0; i < sorted.length - 1; i++) ...
RECURSIVE EmployeeGapsFrom(_, _, _)
EmployeeGapsFrom(fileNumber, sorted, i) ==
    IF i > Len(sorted) - 1 THEN <<>>
    ELSE PairGap(fileNumber, sorted[i], sorted[i + 1])
         \o EmployeeGapsFrom(fileNumber, sorted, i + 1)

\* for (const [fileNumber, employeeEntries] of employeeMap) ...
RECURSIVE GapsOfMap(_)
GapsOfMap(m) ==
    IF m = <<>> THEN <<>>
    ELSE EmployeeGapsFrom(Head(m).key, SortedByTimeIn(Head(m).value), 1)
         \o GapsOfMap(Tail(m))

\* faulty variant: the payDate filter is missing
detectTimecardGaps_NoDateFilter(entries, date) ==
    GapsOfMap(GroupByFileNumber(entries))

detectTimecardGaps(entries, date) ==
    GapsOfMap(GroupByFileNumber(FilterByDate(entries, date)))

(***************************************************************************)
(* normalizeEmployeeName.  A string is the sequence of its characters.     *)
(***************************************************************************)

\* \s
IsSpace(c) == c = " "

\* \w
IsWordChar(c) == c \in {"a", "b", "c", "d", "A", "B", "C", "D", "_"}

\* String.prototype.toLowerCase, one character
LowerChar(c) ==
    CASE c = "A" -> "a" [] c = "B" -> "b" [] c = "C" -> "c" [] c = "D" -> "d"
      [] OTHER -> c

\* UTF-16 code unit
CharCode(c) ==
    CASE c = " " -> 32 [] c = "\"" -> 34 [] c = "," -> 44 [] c = "-" -> 45
      [] c = "A" -> 65 [] c = "B" -> 66 [] c = "C" -> 67 [] c = "D" -> 68
      [] c = "_" -> 95
      [] c = "a" -> 97 [] c = "b" -> 98 [] c = "c" -> 99 [] c = "d" -> 100

RECURSIVE TrimStart(_)
TrimStart(str) ==
    IF str # <<>> /\ IsSpace(Head(str)) THEN TrimStart(Tail(str)) ELSE str

RECURSIVE TrimEnd(_)
TrimEnd(str) ==
    IF str # <<>> /\ IsSpace(str[Len(str)])
    THEN TrimEnd(SubSeq(str, 1, Len(str) - 1)) ELSE str

\* String.prototype.trim
Trim(str) == TrimEnd(TrimStart(str))

\* .replace(/"/g, "")
RemoveQuotes(str) == SelectSeq(str, LAMBDA c : c # "\"")

\* str.split(","): one part more than there are commas, empty parts kept
RECURSIVE SplitComma(_)
SplitComma(str) ==
    IF \A i \in 1..Len(str) : str[i] # "," THEN <<str>>
    ELSE LET i == CHOOSE k \in 1..Len(str) :
                      str[k] = "," /\ \A j \in 1..(k - 1) : str[j] # ","
         IN  <<SubSeq(str, 1, i - 1)>> \o SplitComma(SubSeq(str, i + 1, Len(str)))

\* str.split(/\s+/): a run of whitespace is one separator; leading and trailing
\* runs leave an empty first or last token, the empty string gives [""]
RECURSIVE SplitSpaces(_)
SplitSpaces(str) ==
    IF \A i \in 1..Len(str) : ~IsSpace(str[i]) THEN <<str>>
    ELSE LET i == CHOOSE k \in 1..Len(str) :
                      IsSpace(str[k]) /\ \A j \in 1..(k - 1) : ~IsSpace(str[j])
             rest == TrimStart(SubSeq(str, i, Len(str)))
         IN  <<SubSeq(str, 1, i - 1)>> \o SplitSpaces(rest)

\* parts.flatMap((part) => part.split(/\s+/))
RECURSIVE FlatSplitSpaces(_)
FlatSplitSpaces(parts) ==
    IF parts = <<>> THEN <<>>
    ELSE SplitSpaces(Head(parts)) \o FlatSplitSpaces(Tail(parts))

\* token.toLowerCase().replace(/[^\w]/g, "")
NormalizeToken(token) ==
    SelectSeq([i \in 1..Len(token) |-> LowerChar(token[i])], IsWordChar)

\* a < b as the default Array.prototype.sort compares strings
RECURSIVE StrLess(_, _)
StrLess(a, b) ==
    IF b = <<>> THEN FALSE
    ELSE IF a = <<>> THEN TRUE
    ELSE IF CharCode(Head(a)) # CharCode(Head(b))
         THEN CharCode(Head(a)) < CharCode(Head(b))
         ELSE StrLess(Tail(a), Tail(b))

RECURSIVE InsertToken(_, _)
InsertToken(sorted, t) ==
    IF sorted = <<>> THEN <<t>>
    ELSE IF StrLess(t, Head(sorted)) THEN <<t>> \o sorted
         ELSE <<Head(sorted)>> \o InsertToken(Tail(sorted), t)

\* faulty variant: the tokens keep the order they were written in
SortTokens_Unsorted(tokens) == tokens

\* tokens.sort()
RECURSIVE SortTokens(_)
SortTokens(tokens) ==
    IF tokens = <<>> THEN <<>>
    ELSE InsertToken(SortTokens(SubSeq(tokens, 1, Len(tokens) - 1)),
                     tokens[Len(tokens)])

\* tokens.join(" ")
RECURSIVE JoinSpace(_)
JoinSpace(tokens) ==
    IF tokens = <<>> THEN <<>>
    ELSE IF Len(tokens) = 1 THEN tokens[1]
    ELSE tokens[1] \o <<" ">> \o JoinSpace(Tail(tokens))

normalizeEmployeeName(name) ==
    IF name = <<>> THEN <<>>
    ELSE LET cleaned == RemoveQuotes(Trim(name))
             split == SplitComma(cleaned)
             parts == [i \in 1..Len(split) |-> Trim(split[i])]
             tokens == IF Len(parts) > 1 THEN FlatSplitSpaces(parts)
                       ELSE SplitSpaces(cleaned)
             kept == SelectSeq(tokens, LAMBDA t : Len(t) > 0)
             normalizedTokens == [i \in 1..Len(kept) |-> NormalizeToken(kept[i])]
         IN  JoinSpace(SortTokens(normalizedTokens))

(***************************************************************************)
(* matchEmployeeByName                                                     *)
(***************************************************************************)

\* matchEmployeeByName's default threshold, the one generateDiscrepancyReport uses
DefaultThreshold == 80

\* fuzzball.token_sort_ratio(a, b): a library score in 0..100, a function of
\* the two strings alone; the table is an input of the model.
token_sort_ratio(a, b) == ratio[<<a, b>>]

\* faulty variant: a later pool entry with an equal score replaces the best match
RECURSIVE MatchLoop_LastWins(_, _, _, _)
MatchLoop_LastWins(normalized, names, bestMatch, bestScore) ==
    IF names = <<>> THEN [match |-> bestMatch, score |-> bestScore]
    ELSE LET breakSheetName == Head(names)
             targetNormalized == normalizeEmployeeName(breakSheetName)
             score == token_sort_ratio(normalized, targetNormalized)
         IN  IF score >= bestScore
             THEN MatchLoop_LastWins(normalized, Tail(names), Some(breakSheetName), score)
             ELSE MatchLoop_LastWins(normalized, Tail(names), bestMatch, bestScore)

\* for (const breakSheetName of breakSheetNames) { ... if (score > bestScore) ... }
RECURSIVE MatchLoop(_, _, _, _)
MatchLoop(normalized, names, bestMatch, bestScore) ==
    IF names = <<>> THEN [match |-> bestMatch, score |-> bestScore]
    ELSE LET breakSheetName == Head(names)
             targetNormalized == normalizeEmployeeName(breakSheetName)
             score == token_sort_ratio(normalized, targetNormalized)
         IN  IF score > bestScore
             THEN MatchLoop(normalized, Tail(names), Some(breakSheetName), score)
             ELSE MatchLoop(normalized, Tail(names), bestMatch, bestScore)

\* faulty variant: the last sheet entry is matched whatever the scores
matchEmployeeByName_LastEntry(timecardName, breakSheetNames, threshold) ==
    IF breakSheetNames = <<>> THEN [match |-> None, score |-> 0]
    ELSE [match |-> Some(breakSheetNames[Len(breakSheetNames)]),
          score |-> token_sort_ratio(normalizeEmployeeName(timecardName),
                       normalizeEmployeeName(breakSheetNames[Len(breakSheetNames)]))]

\* faulty variant: the best match is returned whatever its score
matchEmployeeByName_NoThreshold(timecardName, breakSheetNames, threshold) ==
    MatchLoop(normalizeEmployeeName(timecardName), breakSheetNames, None, 0)

matchEmployeeByName(timecardName, breakSheetNames, threshold) ==
    LET best == MatchLoop(normalizeEmployeeName(timecardName), breakSheetNames, None, 0)
    IN  IF best.score >= threshold THEN best
        ELSE [match |-> None, score |-> best.score]

(***************************************************************************)
(* generateDiscrepancyReport                                               *)
(***************************************************************************)

\* faulty variant: the employee's last gap is taken
FindGap_Last(gs, fileNumber) ==
    IF \E i \in 1..Len(gs) : gs[i].fileNumber = fileNumber
    THEN Some(gs[CHOOSE i \in 1..Len(gs) :
                    /\ gs[i].fileNumber = fileNumber
                    /\ \A j \in (i + 1)..Len(gs) : gs[j].fileNumber # fileNumber])
    ELSE None

\* gaps.find((g) => g.fileNumber === fileNumber) || null
FindGap(gs, fileNumber) ==
    IF \E i \in 1..Len(gs) : gs[i].fileNumber = fileNumber
    THEN Some(gs[CHOOSE i \in 1..Len(gs) :
                    /\ gs[i].fileNumber = fileNumber
                    /\ \A j \in 1..(i - 1) : gs[j].fileNumber # fileNumber])
    ELSE None

\* faulty variant: the last sheet entry of that name is taken
FindBreakEntry_Last(sheet, match) ==
    IF IsNull(match) \/ Val(match) = <<>> THEN None
    ELSE IF \E i \in 1..Len(sheet) : sheet[i].driverName = Val(match)
         THEN Some(sheet[CHOOSE i \in 1..Len(sheet) :
                            /\ sheet[i].driverName = Val(match)
                            /\ \A j \in (i + 1)..Len(sheet) : sheet[j].driverName # Val(match)])
         ELSE None

\* matchResult.match ? breakSheetEntries.find((e) => e.driverName === match) || null : null
\* (an empty string is falsy)
FindBreakEntry(sheet, match) ==
    IF IsNull(match) \/ Val(match) = <<>> THEN None
    ELSE IF \E i \in 1..Len(sheet) : sheet[i].driverName = Val(match)
         THEN Some(sheet[CHOOSE i \in 1..Len(sheet) :
                            /\ sheet[i].driverName = Val(match)
                            /\ \A j \in 1..(i - 1) : sheet[j].driverName # Val(match)])
         ELSE None

\* entries.reduce((sum, e) => sum + e.hours, 0)
RECURSIVE SumHours(_)
SumHours(entries) ==
    IF entries = <<>> THEN 0 ELSE Head(entries).hours + SumHours(Tail(entries))

\* breakEntry?.breakDuration || null   (0 is falsy)
DurationOrNull(be) ==
    IF IsNull(be) THEN None
    ELSE IF IsNull(Val(be).breakDuration) \/ Val(Val(be).breakDuration) = 0 THEN None
    ELSE Val(be).breakDuration

\* breakEntry?.breakTimeRange || null
TimeRangeOrNull(be) == IF IsNull(be) THEN None ELSE Val(be).breakTimeRange

\* The body of the loop over employeeMap: the result row of one employee
EmployeeResult(fileNumber, entries, gs, sheet, tol) ==
    LET employeeName == entries[1].payrollName
        totalShiftHours == SumHours(entries)
        employeeGap == FindGap(gs, fileNumber)
        breakSheetNames == [i \in 1..Len(sheet) |-> sheet[i].driverName]
        matchResult == matchEmployeeByName(employeeName, breakSheetNames, DefaultThreshold)
        matched == FindBreakEntry(sheet, matchResult.match)
        cmp == compareBreakRecords(employeeGap, matched, tol)
    IN  [employeeName |-> employeeName,
         fileNumber |-> fileNumber,
         matchedBreakSheetName |-> matchResult.match,
         matchScore |-> matchResult.score,
         timecardGap |-> employeeGap,
         totalShiftHours |-> totalShiftHours,
         breakSheetDuration |-> DurationOrNull(matched),
         breakSheetTimeRange |-> TimeRangeOrNull(matched),
         status |-> cmp.status,
         discrepancyMinutes |-> cmp.discrepancyMinutes]

\* results.filter((r) => r.status === status).length
CountStatus(results, status) ==
    Cardinality({i \in 1..Len(results) : results[i].status = status})

\* faulty variant: warnings are left out, missingGap counts the additions as well
Summarize_WarningsUncounted(results) ==
    [totalEmployees |-> Len(results),
     matches |-> CountStatus(results, "match"),
     mismatches |-> CountStatus(results, "mismatch"),
     missingBreakLog |-> CountStatus(results, "deletion"),
     missingGap |-> CountStatus(results, "addition"),
     noBreakRequired |-> CountStatus(results, "addition")]

Summarize(results) ==
    [totalEmployees |-> Len(results),
     matches |-> CountStatus(results, "match"),
     mismatches |-> CountStatus(results, "mismatch"),
     missingBreakLog |-> CountStatus(results, "deletion"),
     missingGap |-> CountStatus(results, "warning"),
     noBreakRequired |-> CountStatus(results, "addition")]

\* faulty variant: the employees are grouped over the rows of every date
generateDiscrepancyReport_AllDates(entries, sheet, date, tol) ==
    LET gs == detectTimecardGaps(entries, date)
        employeeMap == GroupByFileNumber(entries)
        results == [i \in 1..Len(employeeMap) |->
                       EmployeeResult(employeeMap[i].key, employeeMap[i].value,
                                      gs, sheet, tol)]
    IN  [targetDate |-> date, summary |-> Summarize(results), results |-> results]

generateDiscrepancyReport(entries, sheet, date, tol) ==
    LET gs == detectTimecardGaps(entries, date)
        employeeMap == GroupByFileNumber(FilterByDate(entries, date))
        results == [i \in 1..Len(employeeMap) |->
                       EmployeeResult(employeeMap[i].key, employeeMap[i].value,
                                      gs, sheet, tol)]
    IN  [targetDate |-> date, summary |-> Summarize(results), results |-> results]

(***************************************************************************)
(* parseTimecardCSV                                                        *)
(*                                                                         *)
(* A row is the record Papa.parse builds under header: true: a function on *)
(* the header names whose value is the text of the cell, or None where the *)
(* line has no such cell (undefined).                                      *)
(***************************************************************************)

\* !cell : undefined and the empty string are falsy, every other string is truthy
Falsy(cell) == IsNull(cell) \/ Val(cell) = <<>>

\* The texts date-fns parse accepts under "hh:mm a", "h:mma" or "h:mmaa",
\* with the minute of the day each one denotes: "09:50 AM", "1:05pm",
\* "12:45pm" and "1:13PM".
ClockTable ==
    (<<"0", "9", ":", "5", "0", " ", "A", "M">> :> 590) @@
    (<<"1", ":", "0", "5", "p", "m">> :> 785) @@
    (<<"1", "2", ":", "4", "5", "p", "m">> :> 765) @@
    (<<"1", ":", "1", "3", "P", "M">> :> 793)

\* parse(timeStr, format, referenceDate) under the three formats in turn:
\* the first valid Date, null when all three are Invalid Date
ParseClock(text) ==
    IF text \in DOMAIN ClockTable THEN Some(ClockTable[text]) ELSE None

\* if (!timeStr || timeStr.trim() === "") return null
parseTimeString(timeStr) ==
    IF Falsy(timeStr) \/ Trim(Val(timeStr)) = <<>> THEN None
    ELSE ParseClock(Val(timeStr))

IsDigit(c) == c \in {"0", "1", "2", "3", "4", "5", "6", "7", "8", "9"}

DigitValue(c) ==
    CASE c = "0" -> 0 [] c = "1" -> 1 [] c = "2" -> 2 [] c = "3" -> 3 [] c = "4" -> 4
      [] c = "5" -> 5 [] c = "6" -> 6 [] c = "7" -> 7 [] c = "8" -> 8 [] c = "9" -> 9

\* the longest prefix of digits
RECURSIVE DigitPrefix(_)
DigitPrefix(str) ==
    IF str # <<>> /\ IsDigit(Head(str)) THEN <<Head(str)>> \o DigitPrefix(Tail(str))
    ELSE <<>>

RECURSIVE DecimalValue(_)
DecimalValue(digits) ==
    IF digits = <<>> THEN 0
    ELSE 10 * DecimalValue(SubSeq(digits, 1, Len(digits) - 1))
           + DigitValue(digits[Len(digits)])

\* parseFloat(cell): leading whitespace skipped, the leading digits read,
\* NaN (None) where there is none or the cell is undefined
parseFloat(cell) ==
    IF IsNull(cell) THEN None
    ELSE LET digits == DigitPrefix(TrimStart(Val(cell)))
         IN  IF digits = <<>> THEN None ELSE Some(DecimalValue(digits))

\* parseFloat(row["Hours"]) || 0
HoursOf(row) ==
    LET h == parseFloat(row["Hours"])
    IN  IF IsNull(h) \/ Val(h) = 0 THEN 0 ELSE Val(h)

\* if (!row["Payroll Name"] || !row["File Number"] || !row["Pay Date"]) continue
\* if (!row["Time In"] && !row["Time Out"]) continue
Skipped(row) ==
    \/ Falsy(row["Payroll Name"]) \/ Falsy(row["File Number"]) \/ Falsy(row["Pay Date"])
    \/ (Falsy(row["Time In"]) /\ Falsy(row["Time Out"]))

\* entries.push({ payrollName: row["Payroll Name"].trim(), ... })
EntryOf(row) ==
    [payrollName |-> Trim(Val(row["Payroll Name"])),
     fileNumber  |-> Trim(Val(row["File Number"])),
     payDate     |-> Trim(Val(row["Pay Date"])),
     timeIn      |-> parseTimeString(row["Time In"]),
     timeOut     |-> parseTimeString(row["Time Out"]),
     hours       |-> HoursOf(row)]

\* for (const row of results.data) { ... }
RECURSIVE parseTimecardCSV(_)
parseTimecardCSV(data) ==
    IF data = <<>> THEN <<>>
    ELSE IF Skipped(Head(data)) THEN parseTimecardCSV(Tail(data))
    ELSE <<EntryOf(Head(data))>> \o parseTimecardCSV(Tail(data))

(***************************************************************************)
(* parseBreakDuration and parseTimeRange                                   *)
(*                                                                         *)
(* The regular expressions are matched as the engine matches them: the     *)
(* leftmost start position that admits a match, greedy quantifiers.        *)
(***************************************************************************)

\* the letters of the patterns, folded as the i flag folds them
FoldCase(c) ==
    CASE c = "A" -> "a" [] c = "E" -> "e" [] c = "I" -> "i" [] c = "M" -> "m"
      [] c = "N" -> "n" [] c = "P" -> "p" [] c = "S" -> "s" [] c = "T" -> "t"
      [] c = "U" -> "u"
      [] OTHER -> c

\* text.includes(sub)
Includes(text, sub) ==
    \E i \in 1..(Len(text) - Len(sub) + 1) : SubSeq(text, i, i + Len(sub) - 1) = sub

\* the literal word stands at position i, letter case ignored
WordAt(text, i, word) ==
    /\ i + Len(word) - 1 <= Len(text)
    /\ \A k \in 1..Len(word) : FoldCase(text[i + k - 1]) = word[k]

\* \d repeated d times at position i
DigitsAt(text, i, d) ==
    /\ i + d - 1 <= Len(text)
    /\ \A k \in i..(i + d - 1) : IsDigit(text[k])

\* \s repeated w times at position i
SpacesAt(text, i, w) ==
    /\ i + w - 1 <= Len(text)
    /\ \A k \in i..(i + w - 1) : IsSpace(text[k])

\* (minutes?|mins?) at position i
MinuteWordAt(text, i) ==
    \/ WordAt(text, i, <<"m", "i", "n", "u", "t", "e">>)
    \/ WordAt(text, i, <<"m", "i", "n">>)

\* (\d+)\s*(minutes?|mins?) matches at position i with d digits in group 1
DurationMatchAt(text, i, d) ==
    /\ d >= 1
    /\ DigitsAt(text, i, d)
    /\ \E w \in 0..(Len(text) - (i + d) + 1) :
          SpacesAt(text, i + d, w) /\ MinuteWordAt(text, i + d + w)

\* text.match(/(\d+)\s*(minutes?|mins?)/i): group 1 of the first match, or null
DurationMatch(text) ==
    LET starts == {i \in 1..Len(text) : \E d \in 1..Len(text) : DurationMatchAt(text, i, d)}
    IN  IF starts = {} THEN None
        ELSE LET i == CHOOSE a \in starts : \A b \in starts : a <= b
                 ds == {d \in 1..Len(text) : DurationMatchAt(text, i, d)}
                 d == CHOOSE a \in ds : \A b \in ds : b <= a
             IN  Some(SubSeq(text, i, i + d - 1))

\* "30 and 15"
CompoundPhrase == <<"3", "0", " ", "a", "n", "d", " ", "1", "5">>

\* faulty variant: the pattern is tried before the compound phrase
parseBreakDuration_PatternFirst(text) ==
    IF text = <<>> \/ Trim(text) = <<>> THEN None
    ELSE LET match == DurationMatch(text)
         IN  IF ~IsNull(match) THEN Some(DecimalValue(Val(match)))
             ELSE IF Includes(text, CompoundPhrase) THEN Some(45)
             ELSE None

parseBreakDuration(text) ==
    IF text = <<>> \/ Trim(text) = <<>> THEN None
    ELSE IF Includes(text, CompoundPhrase) THEN Some(45)
    ELSE LET match == DurationMatch(text)
         IN  IF IsNull(match) THEN None ELSE Some(DecimalValue(Val(match)))

\* \d{1,2}:\d{2}[ap]m at position i with h digits before the colon
ClockTokenAt(text, i, h) ==
    /\ h \in {1, 2}
    /\ i + h + 4 <= Len(text)
    /\ DigitsAt(text, i, h)
    /\ text[i + h] = ":"
    /\ DigitsAt(text, i + h + 1, 2)
    /\ FoldCase(text[i + h + 3]) \in {"a", "p"}
    /\ FoldCase(text[i + h + 4]) = "m"

\* (\d{1,2}:\d{2}[ap]m)\s*-\s*(\d{1,2}:\d{2}[ap]m) at position i: the matches
\* as records of the two groups
RangeMatchesAt(text, i) ==
    { [first |-> SubSeq(text, i, i + h1 + 4), second |-> SubSeq(text, j, j + h2 + 4)] :
        <<h1, h2, j>> \in
          { q \in {1, 2} \X {1, 2} \X (1..Len(text)) :
              /\ ClockTokenAt(text, i, q[1])
              /\ ClockTokenAt(text, q[3], q[2])
              /\ \E dash \in (i + q[1] + 5)..(q[3] - 1) :
                    /\ text[dash] = "-"
                    /\ SpacesAt(text, i + q[1] + 5, dash - (i + q[1] + 5))
                    /\ SpacesAt(text, dash + 1, q[3] - (dash + 1)) } }

\* rangeStr.match(...): the groups of the first match, or null.  At one
\* start position the greedy \d{1,2} prefers two digits.
RangeMatch(text) ==
    LET starts == {i \in 1..Len(text) : RangeMatchesAt(text, i) # {}}
    IN  IF starts = {} THEN None
        ELSE LET i == CHOOSE a \in starts : \A b \in starts : a <= b
                 ms == RangeMatchesAt(text, i)
             IN  Some(CHOOSE m \in ms :
                        \A o \in ms : /\ Len(o.first) <= Len(m.first)
                                      /\ (Len(o.first) = Len(m.first)
                                            => Len(o.second) <= Len(m.second)))

\* \((\d+)m\) matches at position i with d digits in group 1
AnnotationAt(text, i, d) ==
    /\ d >= 1
    /\ i + d + 2 <= Len(text)
    /\ text[i] = "("
    /\ DigitsAt(text, i + 1, d)
    /\ text[i + d + 1] = "m"
    /\ text[i + d + 2] = ")"

\* rangeStr.match(/\((\d+)m\)/): group 1 of the first match, or null
AnnotationMatch(text) ==
    LET hits == {q \in (1..Len(text)) \X (1..Len(text)) : AnnotationAt(text, q[1], q[2])}
    IN  IF hits = {} THEN None
        ELSE LET q == CHOOSE a \in hits : \A b \in hits : a[1] <= b[1]
             IN  Some(SubSeq(text, q[1] + 1, q[1] + q[2]))

parseTimeRange(rangeStr) ==
    IF rangeStr = <<>> \/ Trim(rangeStr) = <<>> THEN None
    ELSE LET rangeMatch == RangeMatch(rangeStr)
             durationMatch == AnnotationMatch(rangeStr)
         IN  IF IsNull(rangeMatch) THEN None
             ELSE Some([start |-> parseTimeString(Some(Val(rangeMatch).first)),
                        end |-> parseTimeString(Some(Val(rangeMatch).second)),
                        actualMinutes |->
                            IF IsNull(durationMatch) THEN None
                            ELSE Some(DecimalValue(Val(durationMatch)))])

(***************************************************************************)
(* parseBreakSheetCSV and the promises of the two ingestors                *)
(*                                                                         *)
(* A break sheet file is read as its physical lines, each a sequence of    *)
(* cells; an empty line is a line of one empty cell.  Papa.parse hands the *)
(* complete callback results.data and results.errors, or calls the error   *)
(* callback when the file cannot be read (failure).                        *)
(***************************************************************************)

\* what Papa.parse gives for a line without any character
EmptyLine == <<<<>>>>

\* skipEmptyLines: true
SkipEmptyLines(lines) == SelectSeq(lines, LAMBDA line : line # EmptyLine)

\* results.data.slice(2)
SliceTwo(data) == SubSeq(data, 3, Len(data))

\* row[k], undefined past the end of the row
CellAt(row, k) == IF k + 1 <= Len(row) THEN Some(row[k + 1]) ELSE None

\* row[k]?.trim() || ""
TrimmedOrEmpty(row, k) == IF IsNull(CellAt(row, k)) THEN <<>> ELSE Trim(Val(CellAt(row, k)))

\* row[k] || ""
CellOrEmpty(row, k) == IF IsNull(CellAt(row, k)) THEN <<>> ELSE Val(CellAt(row, k))

\* entries.push({ driverName, breakDuration, breakTimeRange, hasRemarks })
BreakSheetEntryOf(row) ==
    [driverName     |-> TrimmedOrEmpty(row, 0),
     breakDuration  |-> parseBreakDuration(CellOrEmpty(row, 1)),
     breakTimeRange |-> parseTimeRange(TrimmedOrEmpty(row, 5)),
     hasRemarks     |-> TrimmedOrEmpty(row, 3) # <<>>]

\* faulty variant: a row equal to the row before it is dropped
RECURSIVE BreakSheetEntriesOf_Deduplicated(_)
BreakSheetEntriesOf_Deduplicated(dataRows) ==
    IF dataRows = <<>> THEN <<>>
    ELSE IF TrimmedOrEmpty(Head(dataRows), 0) = <<>>
              \/ (Len(dataRows) > 1 /\ dataRows[2] = dataRows[1])
         THEN BreakSheetEntriesOf_Deduplicated(Tail(dataRows))
    ELSE <<BreakSheetEntryOf(Head(dataRows))>>
            \o BreakSheetEntriesOf_Deduplicated(Tail(dataRows))

\* for (const row of dataRows) { ... if (!driverName) continue; ... }
RECURSIVE BreakSheetEntriesOf(_)
BreakSheetEntriesOf(dataRows) ==
    IF dataRows = <<>> THEN <<>>
    ELSE IF TrimmedOrEmpty(Head(dataRows), 0) = <<>>
         THEN BreakSheetEntriesOf(Tail(dataRows))
    ELSE <<BreakSheetEntryOf(Head(dataRows))>> \o BreakSheetEntriesOf(Tail(dataRows))

\* the complete callback of parseBreakSheetCSV, on results.data
parseBreakSheetCSV(data) == BreakSheetEntriesOf(SliceTwo(data))

Fulfilled(v) == [state |-> "fulfilled", value |-> v]

Rejected(prefix, message) == [state |-> "rejected", reason |-> <<prefix, message>>]

\* new Promise(...) of parseTimecardCSV: error rejects, complete resolves;
\* results.errors is not read
TimecardIngestion(file) ==
    IF ~IsNull(file.failure)
    THEN Rejected("Failed to parse timecard CSV: ", Val(file.failure))
    ELSE Fulfilled(parseTimecardCSV(file.data))

\* new Promise(...) of parseBreakSheetCSV: error rejects, complete resolves;
\* results.errors is not read
BreakSheetIngestion(file) ==
    IF ~IsNull(file.failure)
    THEN Rejected("Failed to parse break sheet CSV: ", Val(file.failure))
    ELSE Fulfilled(parseBreakSheetCSV(SkipEmptyLines(file.lines)))

(***************************************************************************)
(* The arrays detectTimecardGaps and generateDiscrepancyReport touch       *)
(*                                                                         *)
(* heap[r] is the content of the array with reference r.  filter and map   *)
(* return a new array, [] is a new array, push and sort change the array   *)
(* they are called on.  No statement of either function assigns to a field *)
(* of an entry, so entries are values.                                     *)
(***************************************************************************)

\* the array is filtered in place and returned (what filter does not do)
ArrayFilter_InPlace(hp, r, Test(_)) ==
    [heap |-> [hp EXCEPT ![r] = SelectSeq(@, Test)], ref |-> r]

\* array.filter(test): a new array
ArrayFilter(hp, r, Test(_)) ==
    [heap |-> Append(hp, SelectSeq(hp[r], Test)), ref |-> Len(hp) + 1]

\* []
ArrayNew(hp) == [heap |-> Append(hp, <<>>), ref |-> Len(hp) + 1]

\* array.push(x)
ArrayPush(hp, r, x) == [hp EXCEPT ![r] = Append(@, x)]

\* array.sort((a, b) => a.timeIn - b.timeIn), in place
ArraySortByTimeIn(hp, r) == [hp EXCEPT ![r] = SortInto(<<>>, @)]

\* for (const entry of dateEntries) { existing = map.get(fileNumber) || [];
\*   existing.push(entry); map.set(fileNumber, existing) }
\* the Map holds references
RECURSIVE GroupOnHeap(_, _, _)
GroupOnHeap(hp, m, entries) ==
    IF entries = <<>> THEN [heap |-> hp, map |-> m]
    ELSE LET entry == Head(entries)
             existing == IF MapHas(m, entry.fileNumber)
                         THEN [heap |-> hp, ref |-> MapGet(m, entry.fileNumber)]
                         ELSE ArrayNew(hp)
         IN  GroupOnHeap(ArrayPush(existing.heap, existing.ref, entry),
                         MapSet(m, entry.fileNumber, existing.ref),
                         Tail(entries))

\* employeeEntries.filter((e) => e.timeIn !== null).sort(...) for each group
RECURSIVE SortGroupsOnHeap(_, _)
SortGroupsOnHeap(hp, m) ==
    IF m = <<>> THEN hp
    ELSE LET withTimeIn == ArrayFilter(hp, Head(m).value, LAMBDA e : ~IsNull(e.timeIn))
         IN  SortGroupsOnHeap(ArraySortByTimeIn(withTimeIn.heap, withTimeIn.ref), Tail(m))

\* faulty variant: the date filter empties the caller's array of other dates
HeapAfterDetect_FilterInPlace(hp, r, date) ==
    LET dateEntries == ArrayFilter_InPlace(hp, r, LAMBDA e : e.payDate = date)
        grouped == GroupOnHeap(dateEntries.heap, <<>>, dateEntries.heap[dateEntries.ref])
    IN  SortGroupsOnHeap(grouped.heap, grouped.map)

\* the heap after detectTimecardGaps(entries, targetDate), entries being array r
HeapAfterDetect(hp, r, date) ==
    LET dateEntries == ArrayFilter(hp, r, LAMBDA e : e.payDate = date)
        grouped == GroupOnHeap(dateEntries.heap, <<>>, dateEntries.heap[dateEntries.ref])
    IN  SortGroupsOnHeap(grouped.heap, grouped.map)

\* the heap after generateDiscrepancyReport(timecardEntries, breakSheetEntries,
\* targetDate), the arguments being arrays r and b
HeapAfterReport(hp, r, b, date) ==
    LET detected == HeapAfterDetect(hp, r, date)
        dateEntries == ArrayFilter(detected, r, LAMBDA e : e.payDate = date)
        grouped == GroupOnHeap(dateEntries.heap, <<>>, dateEntries.heap[dateEntries.ref])
        breakSheetNames ==
            Append(grouped.heap,
                   [i \in 1..Len(grouped.heap[b]) |-> grouped.heap[b][i].driverName])
        results == ArrayNew(breakSheetNames)
    IN  results.heap

(***************************************************************************)
(* Specification SpecCompare: compareBreakRecords applied to every gap,    *)
(* break entry and tolerance of the bounded input space.                   *)
(***************************************************************************)
InitCompare ==
    /\ pc = "compare"
    /\ gap \in CompareGaps
    /\ breakEntry \in CompareBreakEntries
    /\ toleranceMinutes \in 0..MaxTolerance
    /\ comparison = None
    /\ timecardEntries = <<>>
    /\ targetDate = TargetDate
    /\ gaps = <<>>
    /\ breakSheetEntries = <<>>
    /\ ratio = <<>>
    /\ report = None
    /\ MatchIdle
    /\ NameIdle
    /\ CsvIdle
    /\ DurationIdle
    /\ FileIdle
    /\ PageIdle
    /\ HeapIdle

CompareBreakRecords ==
    /\ pc = "compare"
    /\ comparison' = Some(compareBreakRecords(gap, breakEntry, toleranceMinutes))
    /\ pc' = "compared"
    /\ UNCHANGED <<gap, breakEntry, toleranceMinutes, timecardEntries, targetDate,
                   gaps, breakSheetEntries, ratio, report, matchVars, nameVars, csvVars, durationVars, fileVars, pageVars, heap>>

NextCompare == CompareBreakRecords

SpecCompare == InitCompare /\ [][NextCompare]_vars

(***************************************************************************)
(* Specification SpecGaps: detectTimecardGaps applied to every timecard of *)
(* at most MaxEntries rows drawn from GapRows.                             *)
(***************************************************************************)
MaxEntries == 3

\* clock-ins and clock-outs 10 and 11 minutes apart, overlapping and equal
ClockIns == {None, Some(0), Some(15), Some(16)}

ClockOuts == {None, Some(5), Some(16)}

\* rows of the target date for two employees, and of another date
RowKeys ==
    { [fileNumber |-> "f1", payDate |-> TargetDate],
      [fileNumber |-> "f2", payDate |-> TargetDate],
      [fileNumber |-> "f1", payDate |-> OtherDate] }

GapRows ==
    { [payrollName |-> <<"a">>, fileNumber |-> k.fileNumber, payDate |-> k.payDate,
       timeIn |-> i, timeOut |-> o, hours |-> 0] :
        k \in RowKeys, i \in ClockIns, o \in ClockOuts }

InitGaps ==
    /\ pc = "detect"
    /\ \E n \in 0..MaxEntries : timecardEntries \in [1..n -> GapRows]
    /\ targetDate = TargetDate
    /\ gaps = <<>>
    /\ gap = None
    /\ breakEntry = None
    /\ toleranceMinutes = 0
    /\ comparison = None
    /\ breakSheetEntries = <<>>
    /\ ratio = <<>>
    /\ report = None
    /\ MatchIdle
    /\ NameIdle
    /\ CsvIdle
    /\ DurationIdle
    /\ FileIdle
    /\ PageIdle
    /\ HeapIdle

DetectTimecardGaps ==
    /\ pc = "detect"
    /\ gaps' = detectTimecardGaps(timecardEntries, targetDate)
    /\ pc' = "gapsDone"
    /\ UNCHANGED <<timecardEntries, targetDate, gap, breakEntry, toleranceMinutes,
                   comparison, breakSheetEntries, ratio, report, matchVars, nameVars, csvVars, durationVars, fileVars, pageVars, heap>>

NextGaps == DetectTimecardGaps

SpecGaps == InitGaps /\ [][NextGaps]_vars

(***************************************************************************)
(* Specification Spec: generateDiscrepancyReport applied to every timecard *)
(* of at most MaxEntries rows of ReportRows, every break sheet of at most  *)
(* MaxBreakRows rows of SheetRows, every score table over Scores and the   *)
(* tolerances 0 and MaxTolerance.                                          *)
(***************************************************************************)
MaxBreakRows == 2

\* "B,A" and "A B" normalize to the same string
PayrollNames == { <<"B", ",", "A">>, <<"A", " ", "B">> }

DriverNames == { <<"a", ",", "b">>, <<"d">> }

TimecardRow(name, file, date, in, out, h) ==
    [payrollName |-> name, fileNumber |-> file, payDate |-> date,
     timeIn |-> in, timeOut |-> out, hours |-> h]

\* employee f1: gaps of 11 and 28 minutes between three rows, and a row of
\* another date; employee f2: a single row
ReportRows ==
    { TimecardRow(<<"B", ",", "A">>, "f1", TargetDate, Some(0), Some(5), 4),
      TimecardRow(<<"A", " ", "B">>, "f1", TargetDate, Some(16), Some(20), 4),
      TimecardRow(<<"B", ",", "A">>, "f1", TargetDate, Some(48), None, 0),
      TimecardRow(<<"A", " ", "B">>, "f2", TargetDate, Some(15), Some(16), 8),
      TimecardRow(<<"B", ",", "A">>, "f1", OtherDate, Some(16), None, 4) }

SheetRow(name, duration, range) ==
    [driverName |-> name, breakDuration |-> duration, breakTimeRange |-> range]

\* "12:45pm - 1:13pm (28m)", "15 minutes", a range without annotation, "0 minutes"
SheetRows ==
    { SheetRow(<<"a", ",", "b">>, None, Some([actualMinutes |-> Some(28)])),
      SheetRow(<<"a", ",", "b">>, Some(15), None),
      SheetRow(<<"d">>, None, Some([actualMinutes |-> None])),
      SheetRow(<<"d">>, Some(0), None) }

\* scores below, at and above the threshold
Scores == {0, DefaultThreshold - 1, DefaultThreshold}

NormalizedPairs ==
    { <<normalizeEmployeeName(n), normalizeEmployeeName(d)>> :
        n \in PayrollNames, d \in DriverNames }

ReportTolerances == {0, MaxTolerance}

Init ==
    /\ pc = "report"
    /\ \E n \in 0..MaxEntries : timecardEntries \in [1..n -> ReportRows]
    /\ \E n \in 0..MaxBreakRows : breakSheetEntries \in [1..n -> SheetRows]
    /\ ratio \in [NormalizedPairs -> Scores]
    /\ toleranceMinutes \in ReportTolerances
    /\ targetDate = TargetDate
    /\ gaps = <<>>
    /\ gap = None
    /\ breakEntry = None
    /\ comparison = None
    /\ report = None
    /\ MatchIdle
    /\ NameIdle
    /\ CsvIdle
    /\ DurationIdle
    /\ FileIdle
    /\ PageIdle
    /\ HeapIdle

GenerateDiscrepancyReport ==
    /\ pc = "report"
    /\ report' = Some(generateDiscrepancyReport(timecardEntries, breakSheetEntries,
                                                targetDate, toleranceMinutes))
    /\ pc' = "reported"
    /\ UNCHANGED <<timecardEntries, breakSheetEntries, ratio, toleranceMinutes,
                   targetDate, gaps, gap, breakEntry, comparison, matchVars, nameVars, csvVars, durationVars, fileVars, pageVars, heap>>

Next == GenerateDiscrepancyReport

Spec == Init /\ [][Next]_vars

(***************************************************************************)
(* Specification SpecSheet: generateDiscrepancyReport applied to a set of  *)
(* timecards (none, one or two employees, with and without a gap) and      *)
(* every break sheet of at most MaxBreakRows rows of SheetRows.            *)
(***************************************************************************)
SheetTimecards ==
    LET first == TimecardRow(<<"B", ",", "A">>, "f1", TargetDate, Some(0), Some(5), 4)
        second == TimecardRow(<<"A", " ", "B">>, "f1", TargetDate, Some(16), Some(20), 4)
        other == TimecardRow(<<"A", " ", "B">>, "f2", TargetDate, Some(15), Some(16), 8)
    IN  { <<>>, <<first>>, <<other>>, <<first, second>>, <<first, other>>,
          <<second, other, first>> }

InitSheet ==
    /\ pc = "report"
    /\ timecardEntries \in SheetTimecards
    /\ \E n \in 0..MaxBreakRows : breakSheetEntries \in [1..n -> SheetRows]
    /\ ratio \in [NormalizedPairs -> Scores]
    /\ toleranceMinutes \in ReportTolerances
    /\ targetDate = TargetDate
    /\ gaps = <<>>
    /\ gap = None
    /\ breakEntry = None
    /\ comparison = None
    /\ report = None
    /\ MatchIdle
    /\ NameIdle
    /\ CsvIdle
    /\ DurationIdle
    /\ FileIdle
    /\ PageIdle
    /\ HeapIdle

SpecSheet == InitSheet /\ [][Next]_vars

(***************************************************************************)
(* Specification SpecMatch: matchEmployeeByName applied to every pool of   *)
(* at most MaxPool names of PoolNames, every score table over MatchScores  *)
(* and the thresholds of Thresholds.                                       *)
(***************************************************************************)
MaxPool == 3

\* "a,b" and "b a" normalize to one string and so score alike
PoolNames == { <<"a", ",", "b">>, <<"b", " ", "a">>, <<"d">> }

MatchScores == {0, DefaultThreshold - 1, DefaultThreshold, 100}

Thresholds == {0, DefaultThreshold, 100}

\* Every variable but pc, ratio and those of matchEmployeeByName is at rest.
ReportIdle ==
    /\ gap = None
    /\ breakEntry = None
    /\ toleranceMinutes = 0
    /\ comparison = None
    /\ timecardEntries = <<>>
    /\ targetDate = TargetDate
    /\ gaps = <<>>
    /\ breakSheetEntries = <<>>
    /\ report = None

reportVars == <<gap, breakEntry, toleranceMinutes, comparison, timecardEntries,
                targetDate, gaps, breakSheetEntries, report>>

InitMatch ==
    /\ pc = "match"
    /\ nameArg \in PayrollNames
    /\ \E n \in 0..MaxPool : namesArg \in [1..n -> PoolNames]
    /\ thresholdArg \in Thresholds
    /\ ratio \in [{<<normalizeEmployeeName(n), normalizeEmployeeName(d)>> :
                      n \in PayrollNames, d \in PoolNames} -> MatchScores]
    /\ nameMatchResult = None
    /\ ReportIdle
    /\ NameIdle
    /\ CsvIdle
    /\ DurationIdle
    /\ FileIdle
    /\ PageIdle
    /\ HeapIdle

MatchEmployeeByName ==
    /\ pc = "match"
    /\ nameMatchResult' = Some(matchEmployeeByName(nameArg, namesArg, thresholdArg))
    /\ pc' = "matched"
    /\ UNCHANGED <<nameArg, namesArg, thresholdArg, ratio, reportVars, nameVars, csvVars, durationVars, fileVars, pageVars, heap>>

NextMatch == MatchEmployeeByName

SpecMatch == InitMatch /\ [][NextMatch]_vars

(***************************************************************************)
(* Specification SpecNormalize: normalizeEmployeeName applied to every     *)
(* name of at most MaxNameLen characters of NameChars, and then to its own *)
(* result.                                                                 *)
(***************************************************************************)
MaxNameLen == 4

NameChars == {"a", "B", "-", " ", ",", "\""}

InitNormalize ==
    /\ pc = "normalize"
    /\ \E n \in 0..MaxNameLen : nameIn \in [1..n -> NameChars]
    /\ nameOther = <<>>
    /\ normOnce = None
    /\ normTwice = None
    /\ normOther = None
    /\ ratio = <<>>
    /\ ReportIdle
    /\ MatchIdle
    /\ CsvIdle
    /\ DurationIdle
    /\ FileIdle
    /\ PageIdle
    /\ HeapIdle

\* normalizeEmployeeName(name)
Normalize ==
    /\ pc = "normalize"
    /\ normOnce' = Some(normalizeEmployeeName(nameIn))
    /\ pc' = "normalized"
    /\ UNCHANGED <<nameIn, nameOther, normTwice, normOther, ratio,
                   reportVars, matchVars, csvVars, durationVars, fileVars, pageVars, heap>>

\* normalizeEmployeeName applied to the string the first call returned
NormalizeAgain ==
    /\ pc = "normalized"
    /\ normTwice' = Some(normalizeEmployeeName(Val(normOnce)))
    /\ pc' = "renormalized"
    /\ UNCHANGED <<nameIn, nameOther, normOnce, normOther, ratio,
                   reportVars, matchVars, csvVars, durationVars, fileVars, pageVars, heap>>

NextNormalize == Normalize \/ NormalizeAgain

SpecNormalize == InitNormalize /\ [][NextNormalize]_vars

(***************************************************************************)
(* Specification SpecOrder: normalizeEmployeeName applied to two names     *)
(* written from the same words, at most MaxTokens of them, in two orders   *)
(* and with any separators of Separators between them.                     *)
(***************************************************************************)
MaxTokens == 3

WordTokens == { <<"b">>, <<"B", "a">>, <<"a", "_">> }

Separators == { <<" ">>, <<",">>, <<",", " ">> }

\* the number of positions of seq holding w
Occurrences(seq, w) == Cardinality({i \in 1..Len(seq) : seq[i] = w})

\* tokens[1] seps[1] tokens[2] ... seps[n-1] tokens[n]
RECURSIVE WriteName(_, _)
WriteName(tokens, seps) ==
    IF tokens = <<>> THEN <<>>
    ELSE IF Len(tokens) = 1 THEN tokens[1]
    ELSE tokens[1] \o seps[1] \o WriteName(Tail(tokens), Tail(seps))

InitOrder ==
    /\ pc = "order"
    /\ \E n \in 0..MaxTokens :
          \E s \in [1..n -> WordTokens], t \in [1..n -> WordTokens] :
             /\ \A w \in WordTokens : Occurrences(s, w) = Occurrences(t, w)
             /\ \E sepS \in [1..(n - 1) -> Separators], sepT \in [1..(n - 1) -> Separators] :
                   /\ nameIn = WriteName(s, sepS)
                   /\ nameOther = WriteName(t, sepT)
    /\ normOnce = None
    /\ normTwice = None
    /\ normOther = None
    /\ ratio = <<>>
    /\ ReportIdle
    /\ MatchIdle
    /\ CsvIdle
    /\ DurationIdle
    /\ FileIdle
    /\ PageIdle
    /\ HeapIdle

\* normalizeEmployeeName(name) for each of the two names
NormalizeBoth ==
    /\ pc = "order"
    /\ normOnce' = Some(normalizeEmployeeName(nameIn))
    /\ normOther' = Some(normalizeEmployeeName(nameOther))
    /\ pc' = "ordered"
    /\ UNCHANGED <<nameIn, nameOther, normTwice, ratio, reportVars, matchVars, csvVars, durationVars, fileVars, pageVars, heap>>

NextOrder == NormalizeBoth

SpecOrder == InitOrder /\ [][NextOrder]_vars

(***************************************************************************)
(* Specification SpecParse: parseTimecardCSV applied to every file of at   *)
(* most MaxCsvRows rows of CsvRowSet.                                      *)
(***************************************************************************)
MaxCsvRows == 2

CsvRow(name, file, date, in, out, h) ==
    ("Payroll Name" :> name) @@ ("File Number" :> file) @@ ("Pay Date" :> date) @@
    ("Time In" :> in) @@ ("Time Out" :> out) @@ ("Hours" :> h)

\* an absent cell, an empty cell and a cell holding one space
BlankCells == { None, Some(<<>>), Some(<<" ">>) }

GoodName == Some(<<" ", "A", ",", "B">>)
GoodFile == Some(<<"7">>)
GoodDate == Some(<<"1", "2", "/", "2", "4">>)
GoodIn == Some(<<"0", "9", ":", "5", "0", " ", "A", "M">>)
GoodOut == Some(<<"1", ":", "0", "5", "p", "m">>)
GoodHours == Some(<<"8">>)

\* name, file number and date: all three filled, or one of them blank
KeyTriples ==
    {<<GoodName, GoodFile, GoodDate>>}
      \cup {<<b, GoodFile, GoodDate>> : b \in BlankCells}
      \cup {<<GoodName, b, GoodDate>> : b \in BlankCells}
      \cup {<<GoodName, GoodFile, b>> : b \in BlankCells}

\* time in and time out: filled, blank, or text that is not a time
TimePairs ==
    { <<GoodIn, GoodOut>>, <<GoodIn, Some(<<>>)>>, <<None, GoodOut>>,
      <<Some(<<>>), Some(<<>>)>>, <<None, None>>,
      <<Some(<<" ">>), Some(<<>>)>>, <<Some(<<"x">>), None>>,
      <<Some(<<" ">>), Some(<<"x">>)>> }

HourCells == { None, Some(<<"x">>), Some(<<"0">>), Some(<<" ", "4", "0">>), GoodHours }

CsvRowSet ==
    {CsvRow(k[1], k[2], k[3], t[1], t[2], GoodHours) : k \in KeyTriples, t \in TimePairs}
      \cup {CsvRow(GoodName, GoodFile, GoodDate, GoodIn, GoodOut, h) : h \in HourCells}

InitParse ==
    /\ pc = "parse"
    /\ \E n \in 0..MaxCsvRows : csvRows \in [1..n -> CsvRowSet]
    /\ parsedEntries = None
    /\ ratio = <<>>
    /\ ReportIdle
    /\ MatchIdle
    /\ NameIdle
    /\ DurationIdle
    /\ FileIdle
    /\ PageIdle
    /\ HeapIdle

\* complete: (results) => { ... resolve(entries) }
ParseTimecardCSV ==
    /\ pc = "parse"
    /\ parsedEntries' = Some(parseTimecardCSV(csvRows))
    /\ pc' = "parsed"
    /\ UNCHANGED <<csvRows, ratio, reportVars, matchVars, nameVars,
                   durationVars, fileVars, pageVars, heap>>

NextParse == ParseTimecardCSV

SpecParse == InitParse /\ [][NextParse]_vars

(***************************************************************************)
(* Specification SpecDuration: parseBreakDuration applied to every text    *)
(* written from at most MaxFragments fragments of DurationFragments.       *)
(***************************************************************************)
MaxFragments == 4

\* "30 and 15", "15", "2", " ", "minutes", "Min", "nd"
DurationFragments ==
    { CompoundPhrase, <<"1", "5">>, <<"2">>, <<" ">>,
      <<"m", "i", "n", "u", "t", "e", "s">>, <<"M", "i", "n">>, <<"n", "d">> }

\* the fragments written one after the other
RECURSIVE Concat(_)
Concat(fragments) ==
    IF fragments = <<>> THEN <<>> ELSE Head(fragments) \o Concat(Tail(fragments))

InitDuration ==
    /\ pc = "duration"
    /\ \E n \in 0..MaxFragments : \E fs \in [1..n -> DurationFragments] :
          durationText = Concat(fs)
    /\ durationResult = None
    /\ ratio = <<>>
    /\ ReportIdle
    /\ MatchIdle
    /\ NameIdle
    /\ CsvIdle
    /\ FileIdle
    /\ PageIdle
    /\ HeapIdle

\* parseBreakDuration(text)
ParseBreakDuration ==
    /\ pc = "duration"
    /\ durationResult' = Some(parseBreakDuration(durationText))
    /\ pc' = "measured"
    /\ UNCHANGED <<durationText, ratio, reportVars, matchVars, nameVars, csvVars,
                   fileVars, pageVars, heap>>

NextDuration == ParseBreakDuration

SpecDuration == InitDuration /\ [][NextDuration]_vars

(***************************************************************************)
(* Specification SpecIngest: one ingestion call, parseTimecardCSV on a     *)
(* file of at most MaxCsvRows rows of IngestRows or parseBreakSheetCSV on  *)
(* a file of at most MaxSheetLines lines of SheetLines; the file parses    *)
(* cleanly, parses with errors in results.errors, or cannot be read.       *)
(***************************************************************************)
MaxSheetLines == 4

\* "12/24"
DateLine == << <<"1", "2", "/", "2", "4">> >>

\* Drivers,Break,,Remarks,,30mns break
HeaderLine ==
    << <<"D", "r", "i", "v", "e", "r", "s">>, <<"B", "r", "e", "a", "k">>, <<>>,
       <<"R", "e", "m", "a", "r", "k", "s">>, <<>>,
       <<"3", "0", "m", "n", "s", " ", "b", "r", "e", "a", "k">> >>

\* " a,b" with "30 minutes", a remark and "12:45pm - 1:13PM (28m)"
FullLine ==
    << <<" ", "a", ",", "b">>, <<"3", "0", " ", "m", "i", "n", "u", "t", "e", "s">>, <<>>,
       <<"x">>, <<>>,
       <<"1", "2", ":", "4", "5", "p", "m", " ", "-", " ", "1", ":", "1", "3", "P", "M",
         " ", "(", "2", "8", "m", ")">> >>

\* a name and nothing else on the line
ShortLine == << <<"d">> >>

\* a blank name before "15 min"
NamelessLine == << <<" ">>, <<"1", "5", " ", "m", "i", "n">> >>

\* a name with text that is neither a duration nor a time range
UnparseableLine == << <<"d">>, <<"s", "o", "o", "n">>, <<>>, <<" ">>, <<>>, <<"l", "a", "t", "e", "r">> >>

SheetLines ==
    { EmptyLine, DateLine, HeaderLine, FullLine, ShortLine, NamelessLine, UnparseableLine }

\* two rows that are kept, a row without a name and a row without times
IngestRows ==
    { CsvRow(GoodName, GoodFile, GoodDate, GoodIn, GoodOut, GoodHours),
      CsvRow(GoodName, GoodFile, GoodDate, None, GoodOut, Some(<<"x">>)),
      CsvRow(Some(<<>>), GoodFile, GoodDate, GoodIn, GoodOut, GoodHours),
      CsvRow(GoodName, GoodFile, GoodDate, Some(<<>>), None, GoodHours) }

\* results.errors and the error callback: a clean parse, a parse that
\* reports an unterminated quoted field, a file that cannot be read
ParseOutcomes ==
    { [errors |-> <<>>, failure |-> None],
      [errors |-> <<"Quoted field unterminated">>, failure |-> None],
      [errors |-> <<>>, failure |-> Some("NotReadableError")] }

TimecardFiles ==
    { [data |-> d, errors |-> o.errors, failure |-> o.failure] :
        d \in UNION {[1..n -> IngestRows] : n \in 0..MaxCsvRows}, o \in ParseOutcomes }

BreakSheetFiles ==
    { [lines |-> l, errors |-> o.errors, failure |-> o.failure] :
        l \in UNION {[1..n -> SheetLines] : n \in 0..MaxSheetLines}, o \in ParseOutcomes }

InitIngest ==
    /\ pc = "ingest"
    /\ \/ timecardFile \in {Some(f) : f \in TimecardFiles} /\ breakSheetFile = None
       \/ timecardFile = None /\ breakSheetFile \in {Some(f) : f \in BreakSheetFiles}
    /\ timecardPromise = None
    /\ breakSheetPromise = None
    /\ closure = None
    /\ ratio = <<>>
    /\ ReportIdle
    /\ MatchIdle
    /\ NameIdle
    /\ CsvIdle
    /\ DurationIdle
    /\ PageIdle
    /\ HeapIdle

\* parseTimecardCSV(file), up to the settling of its promise
IngestTimecards ==
    /\ pc = "ingest"
    /\ timecardFile # None
    /\ timecardPromise' = Some(TimecardIngestion(Val(timecardFile)))
    /\ pc' = "ingested"
    /\ UNCHANGED <<timecardFile, breakSheetFile, breakSheetPromise, closure, ratio, reportVars,
                   matchVars, nameVars, csvVars, durationVars, pageVars, heap>>

\* parseBreakSheetCSV(file), up to the settling of its promise
IngestBreakSheet ==
    /\ pc = "ingest"
    /\ breakSheetFile # None
    /\ breakSheetPromise' = Some(BreakSheetIngestion(Val(breakSheetFile)))
    /\ pc' = "ingested"
    /\ UNCHANGED <<timecardFile, breakSheetFile, timecardPromise, closure, ratio, reportVars,
                   matchVars, nameVars, csvVars, durationVars, pageVars, heap>>

NextIngest == IngestTimecards \/ IngestBreakSheet

SpecIngest == InitIngest /\ [][NextIngest]_vars

(***************************************************************************)
(* Specification SpecFrame: detectTimecardGaps or generateDiscrepancyReport *)
(* called on arrays the caller holds: array 1 is timecardEntries, array 2  *)
(* is breakSheetEntries.                                                   *)
(***************************************************************************)

\* rows out of time order, rows of two employees, a row of another date and
\* a row without timeIn
FrameTimecards ==
    LET first == TimecardRow(<<"B", ",", "A">>, "f1", TargetDate, Some(0), Some(5), 4)
        second == TimecardRow(<<"A", " ", "B">>, "f1", TargetDate, Some(16), Some(20), 4)
        other == TimecardRow(<<"A", " ", "B">>, "f2", TargetDate, Some(15), Some(16), 8)
        later == TimecardRow(<<"B", ",", "A">>, "f1", OtherDate, Some(0), Some(5), 4)
        open == TimecardRow(<<"B", ",", "A">>, "f1", TargetDate, None, Some(30), 0)
    IN  { <<>>, <<first>>, <<second, first>>, <<second, other, first>>,
          <<later, second, first>>, <<second, open, first, first>> }

InitFrame ==
    /\ pc = "frame"
    /\ \E t \in FrameTimecards :
          \E n \in 0..MaxBreakRows : \E b \in [1..n -> SheetRows] : heap = <<t, b>>
    /\ targetDate \in {TargetDate, OtherDate}
    /\ gap = None
    /\ breakEntry = None
    /\ toleranceMinutes = 0
    /\ comparison = None
    /\ timecardEntries = <<>>
    /\ gaps = <<>>
    /\ breakSheetEntries = <<>>
    /\ report = None
    /\ ratio \in [NormalizedPairs -> {0, DefaultThreshold}]
    /\ MatchIdle
    /\ NameIdle
    /\ CsvIdle
    /\ DurationIdle
    /\ FileIdle
    /\ PageIdle

\* detectTimecardGaps(array 1, targetDate)
FrameDetect ==
    /\ pc = "frame"
    /\ gaps' = detectTimecardGaps(heap[1], targetDate)
    /\ heap' = HeapAfterDetect(heap, 1, targetDate)
    /\ pc' = "detectFramed"
    /\ UNCHANGED <<gap, breakEntry, toleranceMinutes, comparison, timecardEntries,
                   targetDate, breakSheetEntries, report, ratio, matchVars, nameVars,
                   csvVars, durationVars, fileVars, pageVars>>

\* generateDiscrepancyReport(array 1, array 2, targetDate)
FrameReport ==
    /\ pc = "frame"
    /\ report' = Some(generateDiscrepancyReport(heap[1], heap[2], targetDate,
                                                toleranceMinutes))
    /\ heap' = HeapAfterReport(heap, 1, 2, targetDate)
    /\ pc' = "reportFramed"
    /\ UNCHANGED <<gap, breakEntry, toleranceMinutes, comparison, timecardEntries,
                   targetDate, gaps, breakSheetEntries, ratio, matchVars, nameVars,
                   csvVars, durationVars, fileVars, pageVars>>

NextFrame == FrameDetect \/ FrameReport

SpecFrame == InitFrame /\ [][NextFrame]_vars

(***************************************************************************)
(* The page: Home and its handleCompare                                    *)
(*                                                                         *)
(* handleCompare runs to its first await in the click that starts it and   *)
(* goes on each time the promise it awaits settles.  The call reads        *)
(* timecardFile and breakSheetFile from the render it was created in, so   *)
(* it works on the files of the click whatever is selected afterwards.     *)
(***************************************************************************)

\* generateDiscrepancyReport's default toleranceMinutes
DefaultTolerance == 5

\* the literal "12/24/2025" of handleCompare, as the text of a cell
CompareDate == <<"1", "2", "/", "2", "4", "/", "2", "0", "2", "5">>

\* const canCompare = timecardFile !== null && breakSheetFile !== null
canCompare == timecardFile # None /\ breakSheetFile # None

\* disabled={!canCompare || loading}
CompareDisabled == ~canCompare \/ loading

\* a promise that has not settled, with the file it was created on
Pending(file) == [state |-> "pending", file |-> file]

\* a value that was thrown: an Error with its message, or anything else
ErrorOf(message) == [isError |-> TRUE, message |-> message]

\* reject(new Error(`Failed to parse ... CSV: ${error.message}`))
ReasonOf(promise) == ErrorOf(promise.reason)

\* e instanceof Error ? e.message : "An unknown error occurred"
ErrorText(e) == IF e.isError THEN e.message ELSE "An unknown error occurred"

\* faulty variant: setLoading(false) is left out of the failing path
RunFailed_NoFinally(e, previousReport) ==
    [loading |-> TRUE, error |-> Some(ErrorText(e)), report |-> previousReport]

\* faulty variant: the failing path clears the report
RunFailed_ClearsReport(e, previousReport) ==
    [loading |-> FALSE, error |-> Some(ErrorText(e)), report |-> None]

\* catch (e) { setError(...) } finally { setLoading(false) }: the page state
\* after a run that threw e; setReport is not reached
RunFailed(e, previousReport) ==
    [loading |-> FALSE, error |-> Some(ErrorText(e)), report |-> previousReport]

\* setReport(comparisonReport); finally { setLoading(false) }: the page state
\* after a run that reached setReport; error is as setError(null) left it
RunSucceeded(comparisonReport) ==
    [loading |-> FALSE, error |-> None, report |-> Some(comparisonReport)]

(***************************************************************************)
(* Specification SpecPage: the page from its first render on.  Files are   *)
(* selected and cleared at any time, Compare is clicked when the button is *)
(* enabled, and the run goes on as its promises settle.  The library call  *)
(* inside generateDiscrepancyReport returns its score or throws.           *)
(***************************************************************************)

\* a shift with a gap from 12:45pm to 1:05pm, as two rows of one employee
MorningRow ==
    CsvRow(GoodName, GoodFile, Some(CompareDate), GoodIn,
           Some(<<"1", "2", ":", "4", "5", "p", "m">>), Some(<<"4">>))

AfternoonRow ==
    CsvRow(GoodName, GoodFile, Some(CompareDate), GoodOut,
           Some(<<"1", ":", "1", "3", "P", "M">>), Some(<<"4">>))

\* a file with the whole shift, a file with its first row, a file that
\* cannot be read
PageTimecardFiles ==
    { [data |-> <<MorningRow, AfternoonRow>>, errors |-> <<>>, failure |-> None],
      [data |-> <<MorningRow>>, errors |-> <<>>, failure |-> None],
      [data |-> <<>>, errors |-> <<>>, failure |-> Some("NotReadableError")] }

\* a sheet with one logged break, a sheet that cannot be read
PageBreakSheetFiles ==
    { [lines |-> <<DateLine, HeaderLine, FullLine>>, errors |-> <<>>, failure |-> None],
      [lines |-> <<>>, errors |-> <<>>, failure |-> Some("NotReadableError")] }

\* the names the page's files hold, normalized
PagePairs ==
    { <<normalizeEmployeeName(Trim(Val(GoodName))), normalizeEmployeeName(Trim(FullLine[1]))>> }

\* what the library call does on this page: nothing thrown, or an Error
LibraryThrows == { None, Some(ErrorOf("token_sort_ratio")) }

InitPage ==
    /\ pc = "page"
    /\ timecardFile = None
    /\ breakSheetFile = None
    /\ timecardPromise = None
    /\ breakSheetPromise = None
    /\ closure = None
    /\ loading = FALSE
    /\ error = None
    /\ pageReport = None
    /\ ratio \in [PagePairs -> {0, DefaultThreshold}]
    /\ ReportIdle
    /\ MatchIdle
    /\ NameIdle
    /\ CsvIdle
    /\ DurationIdle
    /\ HeapIdle

\* onChange={setTimecardFile}: a file is selected or the selection is cleared
SelectTimecardFile ==
    /\ \E f \in {None} \cup {Some(x) : x \in PageTimecardFiles} :
          /\ f # timecardFile
          /\ timecardFile' = f
    /\ UNCHANGED <<pc, breakSheetFile, timecardPromise, breakSheetPromise, closure, ratio,
                   reportVars, matchVars, nameVars, csvVars, durationVars, pageVars, heap>>

\* onChange={setBreakSheetFile}
SelectBreakSheetFile ==
    /\ \E f \in {None} \cup {Some(x) : x \in PageBreakSheetFiles} :
          /\ f # breakSheetFile
          /\ breakSheetFile' = f
    /\ UNCHANGED <<pc, timecardFile, timecardPromise, breakSheetPromise, closure, ratio,
                   reportVars, matchVars, nameVars, csvVars, durationVars, pageVars, heap>>

\* a click on Compare: handleCompare up to its first await
CompareClicked ==
    /\ pc = "page"
    /\ ~CompareDisabled
    /\ timecardFile # None /\ breakSheetFile # None
    /\ loading' = TRUE
    /\ error' = None
    /\ closure' = Some([timecardFile |-> Val(timecardFile),
                        breakSheetFile |-> Val(breakSheetFile)])
    /\ timecardPromise' = Some(Pending(Val(timecardFile)))
    /\ breakSheetPromise' = None
    /\ pc' = "awaitTimecards"
    /\ UNCHANGED <<timecardFile, breakSheetFile, pageReport, ratio, reportVars, matchVars,
                   nameVars, csvVars, durationVars, heap>>

IsPending(promise) == promise # None /\ Val(promise).state = "pending"

\* Papa.parse calls complete or error: the promise of parseTimecardCSV settles
TimecardsSettled ==
    /\ pc = "awaitTimecards"
    /\ IsPending(timecardPromise)
    /\ timecardPromise' = Some(TimecardIngestion(Val(timecardPromise).file))
    /\ pc' = "timecardsSettled"
    /\ UNCHANGED <<timecardFile, breakSheetFile, breakSheetPromise, closure, ratio,
                   reportVars, matchVars, nameVars, csvVars, durationVars, pageVars, heap>>

\* handleCompare goes on from its first await: to catch and finally, or to
\* parseBreakSheetCSV and its second await
TimecardsResumed ==
    /\ pc = "timecardsSettled"
    /\ IF Val(timecardPromise).state = "rejected"
       THEN \E after \in {RunFailed(ReasonOf(Val(timecardPromise)), pageReport)} :
                /\ loading' = after.loading
                /\ error' = after.error
                /\ pageReport' = after.report
                /\ breakSheetPromise' = breakSheetPromise
                /\ closure' = None
                /\ pc' = "page"
       ELSE /\ breakSheetPromise' = Some(Pending(Val(closure).breakSheetFile))
            /\ pc' = "awaitBreakSheet"
            /\ UNCHANGED <<closure, loading, error, pageReport>>
    /\ UNCHANGED <<timecardFile, breakSheetFile, timecardPromise, ratio, reportVars,
                   matchVars, nameVars, csvVars, durationVars, heap>>

\* Papa.parse calls complete or error: the promise of parseBreakSheetCSV settles
BreakSheetSettled ==
    /\ pc = "awaitBreakSheet"
    /\ IsPending(breakSheetPromise)
    /\ breakSheetPromise' = Some(BreakSheetIngestion(Val(breakSheetPromise).file))
    /\ pc' = "breakSheetSettled"
    /\ UNCHANGED <<timecardFile, breakSheetFile, timecardPromise, closure, ratio,
                   reportVars, matchVars, nameVars, csvVars, durationVars, pageVars, heap>>

\* handleCompare goes on from its second await and runs to its end
BreakSheetResumed ==
    /\ pc = "breakSheetSettled"
    /\ \E thrown \in LibraryThrows :
          \E after \in
                { IF Val(breakSheetPromise).state = "rejected"
                  THEN RunFailed(ReasonOf(Val(breakSheetPromise)), pageReport)
                  ELSE IF thrown # None
                  THEN RunFailed(Val(thrown), pageReport)
                  ELSE RunSucceeded(
                           generateDiscrepancyReport(Val(timecardPromise).value,
                                                     Val(breakSheetPromise).value,
                                                     CompareDate, DefaultTolerance)) } :
             /\ loading' = after.loading
             /\ error' = after.error
             /\ pageReport' = after.report
    /\ closure' = None
    /\ pc' = "page"
    /\ UNCHANGED <<timecardFile, breakSheetFile, timecardPromise, breakSheetPromise, ratio,
                   reportVars, matchVars, nameVars, csvVars, durationVars, heap>>

NextPage ==
    \/ SelectTimecardFile
    \/ SelectBreakSheetFile
    \/ CompareClicked
    \/ TimecardsSettled
    \/ TimecardsResumed
    \/ BreakSheetSettled
    \/ BreakSheetResumed

SpecPage == InitPage /\ [][NextPage]_vars

\* the positions of a run of handleCompare between its click and its end
RunPositions ==
    {"awaitTimecards", "timecardsSettled", "awaitBreakSheet", "breakSheetSettled"}

\* a run in progress takes its next step.  Only TimecardsSettled,
\* TimecardsResumed, BreakSheetSettled and BreakSheetResumed move a run, and
\* the one of them its position enables is enabled whatever else the page
\* holds.
RunGoesOn == pc \in RunPositions /\ pc' \in RunPositions \cup {"page"}

\* Papa.parse calls complete or error on every file it is given, so a
\* promise that is awaited settles, and the continuation of an await runs
\* once its promise has settled.
SpecPageFair == InitPage /\ [][NextPage]_vars /\ WF_pc(RunGoesOn)

(***************************************************************************)
(* Properties of compareBreakRecords (checked under SpecCompare).          *)
(***************************************************************************)
Compared == pc = "compared"

GapPresent == ~IsNull(gap)

BreakPresent == ~IsNull(breakEntry)

Result == Val(comparison)

\* The time-range minutes of the break entry argument, None when the range
\* or its actualMinutes is absent.
RangeMinutes ==
    IF IsNull(Val(breakEntry).breakTimeRange) THEN None
    ELSE Val(breakEntry).breakTimeRange[1].actualMinutes

\* The logged minutes as the specification words them: the time-range
\* minutes when present, else the declared duration (None: unknown).
Logged ==
    IF RangeMinutes # None THEN RangeMinutes ELSE Val(breakEntry).breakDuration

LoggedKnown == BreakPresent /\ Logged # None

GapMinutesArg == Val(gap).gapMinutes

\* C2: a present gap and a present break entry with known logged minutes L and
\* |gapMinutes - L| <= tolerance give status match and discrepancyMinutes 0.
C2_WithinToleranceIsMatch ==
    (Compared /\ GapPresent /\ LoggedKnown
        /\ Abs(GapMinutesArg - Val(Logged)) <= toleranceMinutes)
    => (Result.status = "match" /\ Result.discrepancyMinutes = Some(0))

\* gap 28 against a break row annotated (28m)
C2_Witness ==
    /\ Compared /\ GapPresent /\ LoggedKnown
    /\ GapMinutesArg = 28 /\ RangeMinutes = Some(28)
    /\ Result.status = "match"

\* C4: a present gap and a present break entry with known logged minutes L and
\* |gapMinutes - L| > tolerance give status mismatch and the signed
\* discrepancyMinutes gapMinutes - L.
C4_BeyondToleranceIsSignedMismatch ==
    (Compared /\ GapPresent /\ LoggedKnown
        /\ Abs(GapMinutesArg - Val(Logged)) > toleranceMinutes)
    => (/\ Result.status = "mismatch"
        /\ Result.discrepancyMinutes = Some(GapMinutesArg - Val(Logged)))

\* gap 28 against a declared 15 minutes with no time range, tolerance 5: 13
C4_Witness ==
    /\ Compared /\ GapPresent /\ BreakPresent
    /\ GapMinutesArg = 28 /\ toleranceMinutes = 5
    /\ Val(breakEntry).breakTimeRange = None
    /\ Val(breakEntry).breakDuration = Some(15)
    /\ Result = [status |-> "mismatch", discrepancyMinutes |-> Some(13)]

\* C5: no gap and a break entry with known logged minutes L (L = 0 included)
\* give status warning and discrepancyMinutes -L, a number.
C5_BreakWithoutGapIsNegatedLogged ==
    (Compared /\ ~GapPresent /\ LoggedKnown)
    => (/\ Result.status = "warning"
        /\ Result.discrepancyMinutes = Some(-Val(Logged)))

\* C6: a break entry whose logged minutes are unknown gives status warning and
\* an absent discrepancyMinutes, with and without a gap.
C6_UnknownLoggedIsWarning ==
    (Compared /\ BreakPresent /\ ~LoggedKnown)
    => (Result.status = "warning" /\ Result.discrepancyMinutes = None)

\* a gap against a break row whose range carries no (Nm) annotation
C6_Witness ==
    /\ Compared /\ GapPresent /\ BreakPresent
    /\ Val(breakEntry).breakTimeRange = Some([actualMinutes |-> None])
    /\ Val(breakEntry).breakDuration = None
    /\ Result.status = "warning"

\* C7: neither a gap nor a break entry gives status match and an absent
\* discrepancyMinutes, whatever the tolerance.
C7_NeitherIsMatch ==
    (Compared /\ ~GapPresent /\ ~BreakPresent)
    => (Result.status = "match" /\ Result.discrepancyMinutes = None)

C7_Witness ==
    /\ Compared /\ ~GapPresent /\ ~BreakPresent
    /\ toleranceMinutes = MaxTolerance
    /\ Result.status = "match"

\* The classification of a gap of g minutes against L logged minutes.
ClassifyAgainst(g, L, tol) ==
    IF Abs(g - L) <= tol
    THEN [status |-> "match", discrepancyMinutes |-> Some(0)]
    ELSE [status |-> "mismatch", discrepancyMinutes |-> Some(g - L)]

\* The outcome is the one computed from m logged minutes.
UsesMinutes(m) ==
    IF GapPresent THEN Result = ClassifyAgainst(GapMinutesArg, m, toleranceMinutes)
    ELSE /\ Result.discrepancyMinutes \in {None, Some(-m)}
         /\ (m # 0 => Result.discrepancyMinutes = Some(-m))

\* C8: the logged minutes used are the time-range actualMinutes whenever
\* present (0 included, a differing declared duration notwithstanding), and
\* the declared breakDuration only when the range or its actualMinutes is absent.
C8_ActualMinutesPreferred ==
    (Compared /\ BreakPresent)
    => (/\ RangeMinutes # None => UsesMinutes(Val(RangeMinutes))
        /\ (RangeMinutes = None /\ Val(breakEntry).breakDuration # None)
              => UsesMinutes(Val(Val(breakEntry).breakDuration)))

\* a range annotated (0m) beside a declared 15 minutes, gap of 15: mismatch
C8_Witness ==
    /\ Compared /\ GapPresent /\ BreakPresent
    /\ RangeMinutes = Some(0)
    /\ Val(breakEntry).breakDuration = Some(15)
    /\ GapMinutesArg = 15
    /\ Result.status = "mismatch"

(***************************************************************************)
(* Properties of detectTimecardGaps (checked under SpecGaps).              *)
(***************************************************************************)
GapsDone == pc = "gapsDone"

Row(i) == timecardEntries[i]

\* Row i is of the target date and carries a clock-in.
Eligible(i) == Row(i).payDate = targetDate /\ Row(i).timeIn # None

\* Rows i and j are of one employee and i comes before j in clock-in order
\* (rows with equal clock-ins keep their timecard order).
Before(i, j) ==
    /\ Eligible(i) /\ Eligible(j)
    /\ Row(i).fileNumber = Row(j).fileNumber
    /\ \/ Val(Row(i).timeIn) < Val(Row(j).timeIn)
       \/ (Val(Row(i).timeIn) = Val(Row(j).timeIn) /\ i < j)

Adjacent(i, j) ==
    /\ Before(i, j)
    /\ ~\E k \in 1..Len(timecardEntries) : Before(i, k) /\ Before(k, j)

\* The pair (current, next) of the reference that yields a gap.
Emits(i, j) ==
    /\ Adjacent(i, j)
    /\ Row(i).timeOut # None
    /\ Val(Row(j).timeIn) - Val(Row(i).timeOut) > 10

EmittingPairs ==
    {p \in (1..Len(timecardEntries)) \X (1..Len(timecardEntries)) : Emits(p[1], p[2])}

GapFor(p) ==
    [employeeName |-> Row(p[1]).payrollName,
     fileNumber |-> Row(p[1]).fileNumber,
     gapStart |-> Val(Row(p[1]).timeOut),
     gapEnd |-> Val(Row(p[2]).timeIn),
     gapMinutes |-> Val(Row(p[2]).timeIn) - Val(Row(p[1]).timeOut)]

\* Two rows of one employee on the target date, i clocking in before j, the
\* only such rows of the timecard.
LonePair(i, j) ==
    /\ Len(timecardEntries) = 2 /\ {i, j} = {1, 2}
    /\ Before(i, j) /\ Row(i).timeOut # None

\* C9: every returned gap has gapMinutes > 10; a clock-out to next clock-in
\* distance of 10 minutes or less yields no gap and a distance of 11 minutes
\* or more yields the gap of that many minutes.
C9_GapsExceedTenMinutes ==
    GapsDone =>
        /\ \A k \in 1..Len(gaps) :
              /\ gaps[k].gapMinutes > 10
              /\ gaps[k].gapMinutes = gaps[k].gapEnd - gaps[k].gapStart
        /\ \A i, j \in 1..Len(timecardEntries) :
              LonePair(i, j) =>
                 LET d == Val(Row(j).timeIn) - Val(Row(i).timeOut)
                 IN  /\ d <= 10 => gaps = <<>>
                     /\ d > 10 => (Len(gaps) = 1 /\ gaps[1].gapMinutes = d)

\* one employee: a pair exactly 10 minutes apart, then a pair 11 minutes apart
C9_Witness ==
    /\ GapsDone
    /\ Len(gaps) = 1 /\ gaps[1].gapMinutes = 11
    /\ \E i, j \in 1..Len(timecardEntries) :
          /\ Adjacent(i, j) /\ Row(i).timeOut # None
          /\ Val(Row(j).timeIn) - Val(Row(i).timeOut) = 10

\* C10: the returned gaps are, with multiplicity, those of the reference: one
\* per pair of rows of the target date and of one employee, both with a
\* clock-in and adjacent in clock-in order, whose first row has a clock-out
\* more than 10 minutes before the second row's clock-in.
C10_GapsAreTheReferenceGaps ==
    GapsDone =>
        \A r \in {gaps[k] : k \in 1..Len(gaps)} \cup {GapFor(p) : p \in EmittingPairs} :
            Cardinality({k \in 1..Len(gaps) : gaps[k] = r})
                = Cardinality({p \in EmittingPairs : GapFor(p) = r})

\* an employee's rows out of clock-in order around another employee's row
C10_Witness ==
    /\ GapsDone
    /\ Len(timecardEntries) = 3
    /\ Row(1).fileNumber = "f1" /\ Row(2).fileNumber = "f2" /\ Row(3).fileNumber = "f1"
    /\ Eligible(1) /\ Eligible(2) /\ Eligible(3)
    /\ Val(Row(3).timeIn) < Val(Row(1).timeIn)
    /\ Len(gaps) = 1 /\ gaps[1].fileNumber = "f1"

(***************************************************************************)
(* Properties of generateDiscrepancyReport (checked under Spec).           *)
(***************************************************************************)
Reported == pc = "reported"

Results == Val(report).results

Summary == Val(report).summary

\* C1: matches + mismatches + missingBreakLog + missingGap + noBreakRequired
\* equals totalEmployees, which equals the number of results.
C1_SummaryCountsAddUp ==
    Reported =>
        /\ Summary.matches + Summary.mismatches + Summary.missingBreakLog
             + Summary.missingGap + Summary.noBreakRequired = Summary.totalEmployees
        /\ Summary.totalEmployees = Len(Results)

\* two employees, one with a mismatched gap and one with a break but no gap
C1_Witness ==
    /\ Reported
    /\ Len(Results) = 2
    /\ Summary.mismatches = 1 /\ Summary.missingGap = 1
    /\ Summary.totalEmployees = 2

\* C3: a result row with a gap and no matched break entry has status deletion
\* and discrepancyMinutes equal to the gap's gapMinutes; every row with a gap
\* and a best match score below 80 is such a row.
C3_UnmatchedGapIsDeletion ==
    Reported =>
        \A i \in 1..Len(Results) :
            LET r == Results[i]
            IN  /\ (r.timecardGap # None /\ r.matchScore < 80)
                      => r.matchedBreakSheetName = None
                /\ (r.timecardGap # None /\ r.matchedBreakSheetName = None)
                      => /\ r.status = "deletion"
                         /\ r.discrepancyMinutes = Some(Val(r.timecardGap).gapMinutes)

\* a gap of 11 minutes, the best sheet name scoring 79
C3_Witness ==
    /\ Reported
    /\ breakSheetEntries # <<>>
    /\ \E i \in 1..Len(Results) :
          /\ Results[i].timecardGap # None
          /\ Results[i].matchScore = 79
          /\ Results[i].status = "deletion"
          /\ Results[i].discrepancyMinutes = Some(11)

\* The pairs of rows of one employee that yield a gap, and the one among them
\* whose first row is earliest in clock-in order.
EmittingPairsOf(fileNumber) ==
    {p \in EmittingPairs : Row(p[1]).fileNumber = fileNumber}

FirstPairOf(fileNumber) ==
    CHOOSE p \in EmittingPairsOf(fileNumber) :
        \A q \in EmittingPairsOf(fileNumber) : q = p \/ Before(p[1], q[1])

\* The first break-sheet row, in sheet order, that carries the name.
FirstSheetRowNamed(name) ==
    breakSheetEntries[CHOOSE i \in 1..Len(breakSheetEntries) :
        /\ breakSheetEntries[i].driverName = name
        /\ \A j \in 1..(i - 1) : breakSheetEntries[j].driverName # name]

\* The logged minutes of a break-sheet row: its range minutes, else its
\* declared duration (None: unknown).
LoggedOf(row) ==
    IF row.breakTimeRange # None /\ row.breakTimeRange[1].actualMinutes # None
    THEN row.breakTimeRange[1].actualMinutes
    ELSE row.breakDuration

\* The row's status and discrepancyMinutes are those the decision table gives
\* a gap of g minutes and the break-sheet row named by the row's match.
ClassifiedFromGap(r, g) ==
    IF r.matchedBreakSheetName = None
    THEN r.status = "deletion" /\ r.discrepancyMinutes = Some(g)
    ELSE LET L == LoggedOf(FirstSheetRowNamed(Val(r.matchedBreakSheetName)))
         IN  IF L = None
             THEN r.status = "warning" /\ r.discrepancyMinutes = None
             ELSE [status |-> r.status, discrepancyMinutes |-> r.discrepancyMinutes]
                     = ClassifyAgainst(g, Val(L), toleranceMinutes)

\* C11: for an employee with more than one qualifying gap the result row
\* carries the gap of the earliest adjacent pair in clock-in order, and status
\* and discrepancyMinutes are those of that gap alone.
C11_FirstGapOnly ==
    Reported =>
        \A i \in 1..Len(Results) :
            LET r == Results[i]
            IN  Cardinality(EmittingPairsOf(r.fileNumber)) > 1 =>
                    LET first == GapFor(FirstPairOf(r.fileNumber))
                    IN  /\ r.timecardGap = Some(first)
                        /\ ClassifiedFromGap(r, first.gapMinutes)

\* gaps of 11 and 28 minutes against a sheet row annotated (28m): the 11
\* minute gap is compared, a mismatch of -17
C11_Witness ==
    /\ Reported
    /\ \E i \in 1..Len(Results) :
          /\ Cardinality(EmittingPairsOf(Results[i].fileNumber)) = 2
          /\ Val(Results[i].timecardGap).gapMinutes = 11
          /\ Results[i].status = "mismatch"
          /\ Results[i].discrepancyMinutes = Some(-17)

\* The employee ids of the timecard rows of the target date.
FileNumbersOfDate ==
    {timecardEntries[i].fileNumber :
        i \in {k \in 1..Len(timecardEntries) : timecardEntries[k].payDate = targetDate}}

\* C12: the report has exactly one result row per distinct fileNumber among the
\* timecard rows of the target date, and no other row.
C12_OneRowPerEmployeeOfDate ==
    Reported =>
        /\ {Results[i].fileNumber : i \in 1..Len(Results)} = FileNumbersOfDate
        /\ Len(Results) = Cardinality(FileNumbersOfDate)

\* two rows of f1 and one of another date: a single result row
C12_Witness ==
    /\ Reported
    /\ Len(timecardEntries) = 3
    /\ \E i \in 1..3 : timecardEntries[i].payDate = OtherDate
    /\ Cardinality({i \in 1..3 : timecardEntries[i].payDate = targetDate}) = 2
    /\ Len(Results) = 1

\* The score of a break-sheet row's name against a result row's employee.
ScoreAgainst(r, sheetRow) ==
    ratio[<<normalizeEmployeeName(r.employeeName),
            normalizeEmployeeName(sheetRow.driverName)>>]

\* The row scores below the best match of every employee of the report.
ScoresBelowEveryBest(sheetRow) ==
    \A i \in 1..Len(Results) : ScoreAgainst(Results[i], sheetRow) < Results[i].matchScore

InsertAt(seq, k, x) == SubSeq(seq, 1, k) \o <<x>> \o SubSeq(seq, k + 1, Len(seq))

RemoveAt(seq, k) == SubSeq(seq, 1, k - 1) \o SubSeq(seq, k + 1, Len(seq))

ReportOfSheet(sheet) ==
    generateDiscrepancyReport(timecardEntries, sheet, targetDate, toleranceMinutes)

\* C13: a break-sheet row whose name scores below every employee's best match
\* has no result row of its own, and adding it anywhere in the sheet, or
\* removing it, leaves results and summary unchanged.
C13_UnmatchedSheetRowsAreInvisible ==
    Reported =>
        /\ Len(Results) = Cardinality(FileNumbersOfDate)
        /\ \A row \in SheetRows : \A k \in 0..Len(breakSheetEntries) :
              ScoresBelowEveryBest(row)
                 => ReportOfSheet(InsertAt(breakSheetEntries, k, row)) = Val(report)
        /\ \A k \in 1..Len(breakSheetEntries) :
              ScoresBelowEveryBest(breakSheetEntries[k])
                 => ReportOfSheet(RemoveAt(breakSheetEntries, k)) = Val(report)

\* a sheet whose last row scores 0 against an employee matched at 80
C13_Witness ==
    /\ Reported
    /\ Len(Results) = 1 /\ Results[1].matchScore = 80
    /\ Len(breakSheetEntries) = 2
    /\ ScoreAgainst(Results[1], breakSheetEntries[2]) = 0
    /\ ScoresBelowEveryBest(breakSheetEntries[2])

\* breakEntry?.breakDuration || null as the result row shows it
ShownDuration(sheetRow) ==
    IF sheetRow.breakDuration = Some(0) THEN None ELSE sheetRow.breakDuration

\* C14: matchedBreakSheetName is present only with matchScore >= 80, and the
\* break entry then classified and shown is the first sheet row, in sheet
\* order, whose driverName is the matched name.
C14_FirstSheetRowOfMatchedName ==
    Reported =>
        \A i \in 1..Len(Results) :
            LET r == Results[i]
            IN  r.matchedBreakSheetName # None =>
                   /\ r.matchScore >= 80
                   /\ LET first == FirstSheetRowNamed(Val(r.matchedBreakSheetName))
                      IN  /\ r.breakSheetTimeRange = first.breakTimeRange
                          /\ r.breakSheetDuration = ShownDuration(first)
                          /\ r.timecardGap # None
                                => ClassifiedFromGap(r, Val(r.timecardGap).gapMinutes)

\* two sheet rows of one name, "15 minutes" before the (28m) range
C14_Witness ==
    /\ Reported
    /\ Len(breakSheetEntries) = 2
    /\ breakSheetEntries[1].driverName = breakSheetEntries[2].driverName
    /\ breakSheetEntries[1].breakDuration = Some(15)
    /\ breakSheetEntries[2].breakDuration = None
    /\ \E i \in 1..Len(Results) :
          /\ Results[i].matchedBreakSheetName = Some(breakSheetEntries[1].driverName)
          /\ Results[i].breakSheetDuration = Some(15)
          /\ Results[i].timecardGap # None

(***************************************************************************)
(* Properties of matchEmployeeByName (checked under SpecMatch).            *)
(***************************************************************************)
Matched == pc = "matched"

\* The score of pool entry i against the candidate.
PoolScore(i) ==
    ratio[<<normalizeEmployeeName(nameArg),
            normalizeEmployeeName(namesArg[i])>>]

\* Pool entry i attains the maximum score over the pool.
AttainsMax(i) == \A j \in 1..Len(namesArg) : PoolScore(j) <= PoolScore(i)

\* C15: when the maximum score over the pool is >= thresholdArg the result is the
\* original string of a pool entry attaining it, with that score; otherwise
\* match is absent and score is the best score seen (0 for an empty pool).
C15_BestEntryAtOrAboveThreshold ==
    Matched =>
        LET res == Val(nameMatchResult)
        IN  IF \E i \in 1..Len(namesArg) : AttainsMax(i) /\ PoolScore(i) >= thresholdArg
            THEN /\ res.match # None
                 /\ \E i \in 1..Len(namesArg) :
                       /\ AttainsMax(i)
                       /\ Val(res.match) = namesArg[i]
                       /\ res.score = PoolScore(i)
            ELSE /\ res.match = None
                 /\ IF namesArg = <<>> THEN res.score = 0
                    ELSE \E i \in 1..Len(namesArg) :
                            AttainsMax(i) /\ res.score = PoolScore(i)

\* C16: a returned match is the pool entry of smallest index among those
\* attaining the maximum score.
C16_TiesGoToTheFirstEntry ==
    (Matched /\ Val(nameMatchResult).match # None) =>
        \E i \in 1..Len(namesArg) :
            /\ AttainsMax(i)
            /\ \A j \in 1..(i - 1) : ~AttainsMax(j)
            /\ Val(nameMatchResult).match = Some(namesArg[i])

\* "b a" before "a,b", both at the maximum: "b a" is returned
C16_Witness ==
    /\ Matched
    /\ Len(namesArg) = 3
    /\ namesArg[1] = <<"d">>
    /\ namesArg[2] = <<"b", " ", "a">>
    /\ namesArg[3] = <<"a", ",", "b">>
    /\ PoolScore(1) < PoolScore(2) /\ PoolScore(2) = PoolScore(3)
    /\ Val(nameMatchResult).match = Some(<<"b", " ", "a">>)

(***************************************************************************)
(* Properties of normalizeEmployeeName (checked under SpecNormalize and    *)
(* SpecOrder).                                                             *)
(***************************************************************************)
Renormalized == pc = "renormalized"

\* C17: normalize(normalize(name)) = normalize(name) for every name, names
\* with tokens made only of punctuation included.
C17_NormalizeIsIdempotent ==
    Renormalized => normTwice = normOnce

Ordered == pc = "ordered"

\* C18: two names written from the same multiset of word tokens, in any
\* order and with any mix of spaces and commas between them, normalize to
\* the same string.
C18_OrderAndCommasAreIrrelevant ==
    Ordered => normOnce = normOther

\* "Ba, b a_" and "a_,b Ba" both normalize to "a_ b ba"
C18_Witness ==
    /\ Ordered
    /\ nameIn = <<"B", "a", ",", " ", "b", " ", "a", "_">>
    /\ nameOther = <<"a", "_", ",", "b", " ", "B", "a">>
    /\ normOnce = Some(<<"a", "_", " ", "b", " ", "b", "a">>)
    /\ normOther = normOnce

(***************************************************************************)
(* Properties of parseTimecardCSV (checked under SpecParse).               *)
(***************************************************************************)
Parsed == pc = "parsed"

Entries == Val(parsedEntries)

\* C19: every TimecardEntry parseTimecardCSV produces has timeIn or timeOut,
\* whatever the cells hold (whitespace-only or unparseable text included).
C19_EveryEntryHasATime ==
    Parsed =>
        \A i \in 1..Len(Entries) :
            Entries[i].timeIn # None \/ Entries[i].timeOut # None

\* a cell is blank when it is absent, empty or holds whitespace only
Blank(cell) == cell = None \/ \A i \in 1..Len(Val(cell)) : Val(cell)[i] = " "

\* the rows the claim keeps: name, file number and date filled, and a time
\* cell filled
KeptByClaim(row) ==
    /\ ~Blank(row["Payroll Name"])
    /\ ~Blank(row["File Number"])
    /\ ~Blank(row["Pay Date"])
    /\ ~(Blank(row["Time In"]) /\ Blank(row["Time Out"]))

\* the hours cell is a number
NumericHours(row) ==
    /\ row["Hours"] # None
    /\ Val(row["Hours"]) # <<>>
    /\ \A i \in 1..Len(Val(row["Hours"])) : Val(row["Hours"])[i] \in {"0", "4", "8"}

\* C20: a row is skipped exactly when its name, file number or date is blank
\* (empty or whitespace-only) or both its times are blank; no emitted entry
\* has an empty payrollName, fileNumber or payDate; a non-numeric hours cell
\* gives hours = 0 and no skip.
C20_SkipsExactlyTheBlankRows ==
    Parsed =>
        LET kept == SelectSeq(csvRows, KeptByClaim)
        IN  /\ Len(Entries) = Len(kept)
            /\ \A i \in 1..Len(Entries) :
                  /\ Entries[i].payrollName # <<>>
                  /\ Entries[i].fileNumber # <<>>
                  /\ Entries[i].payDate # <<>>
                  /\ ~NumericHours(kept[i]) => Entries[i].hours = 0

(***************************************************************************)
(* Properties of parseBreakDuration (checked under SpecDuration).          *)
(***************************************************************************)
Measured == pc = "measured"

\* the text holds "30 and 15" somewhere
HoldsCompoundPhrase ==
    \E i \in 0..(Len(durationText) - 9) :
        /\ durationText[i + 1] = "3" /\ durationText[i + 2] = "0"
        /\ durationText[i + 3] = " " /\ durationText[i + 4] = "a"
        /\ durationText[i + 5] = "n" /\ durationText[i + 6] = "d"
        /\ durationText[i + 7] = " " /\ durationText[i + 8] = "1"
        /\ durationText[i + 9] = "5"

\* the integers of the text: its maximal runs of digits, as <<first, last>>
IntegerRuns ==
    { r \in (1..Len(durationText)) \X (1..Len(durationText)) :
        /\ r[1] <= r[2]
        /\ \A k \in r[1]..r[2] : IsDigit(durationText[k])
        /\ (r[1] = 1 \/ ~IsDigit(durationText[r[1] - 1]))
        /\ (r[2] = Len(durationText) \/ ~IsDigit(durationText[r[2] + 1])) }

\* after optional spaces the run is followed by min..., in either letter case
BeforeMinutes(r) ==
    \E j \in (r[2] + 1)..(Len(durationText) - 2) :
        /\ \A k \in (r[2] + 1)..(j - 1) : durationText[k] = " "
        /\ durationText[j] \in {"m", "M"}
        /\ durationText[j + 1] \in {"i", "I"}
        /\ durationText[j + 2] \in {"n", "N"}

\* the first integer followed by a minutes token, absent when there is none
FirstMinutesInteger ==
    LET runs == {r \in IntegerRuns : BeforeMinutes(r)}
    IN  IF runs = {} THEN None
        ELSE LET r == CHOOSE a \in runs : \A b \in runs : a[1] <= b[1]
             IN  Some(DecimalValue(SubSeq(durationText, r[1], r[2])))

NonBlank == \E k \in 1..Len(durationText) : durationText[k] # " "

\* C24: a text holding "30 and 15" gives exactly 45 whatever surrounds the
\* phrase; every other non-blank text gives the first integer followed by a
\* minute(s)/min(s) token, and null when there is none.
C24_CompoundPhraseThenFirstInteger ==
    (Measured /\ NonBlank) =>
        IF HoldsCompoundPhrase THEN Val(durationResult) = Some(45)
        ELSE Val(durationResult) = FirstMinutesInteger

\* "2nd30 and 15minutes": the phrase wins over the "15minutes" that follows
C24_Witness ==
    /\ Measured
    /\ durationText = <<"2", "n", "d">> \o CompoundPhrase
                        \o <<"m", "i", "n", "u", "t", "e", "s">>
    /\ FirstMinutesInteger = Some(15)
    /\ Val(durationResult) = Some(45)

(***************************************************************************)
(* Properties of the two ingestors (checked under SpecIngest).             *)
(***************************************************************************)
Ingested == pc = "ingested"

SheetResolved ==
    Ingested /\ breakSheetPromise # None /\ Val(breakSheetPromise).state = "fulfilled"

SheetEntries == Val(breakSheetPromise).value

\* the physical rows of the file from row 3 onward
PhysicalDataRows ==
    SubSeq(Val(breakSheetFile).lines, 3, Len(Val(breakSheetFile).lines))

\* the name cell of the row, trimmed; empty when the row has no cell
NameOfRow(row) == IF row = <<>> THEN <<>> ELSE Trim(row[1])

\* C21: the first two physical rows are discarded and row 3 onward is data
\* (also when a leading physical row is an empty line); a data row is
\* skipped exactly when its name is blank after trimming, whatever its
\* duration, remarks and time-range cells hold.
C21_TwoPhysicalRowsDiscarded ==
    SheetResolved =>
        LET named == SelectSeq(PhysicalDataRows, LAMBDA row : NameOfRow(row) # <<>>)
        IN  /\ Len(SheetEntries) = Len(named)
            /\ \A i \in 1..Len(SheetEntries) :
                  SheetEntries[i].driverName = NameOfRow(named[i])

TimecardResolved ==
    Ingested /\ timecardPromise # None /\ Val(timecardPromise).state = "fulfilled"

\* the entries of the rows the ingestor does not skip, row by row
TimecardRowsKept ==
    SelectSeq(Val(timecardFile).data, LAMBDA row : ~Skipped(row))

SheetRowsKept ==
    SelectSeq(SliceTwo(SkipEmptyLines(Val(breakSheetFile).lines)),
              LAMBDA row : TrimmedOrEmpty(row, 0) # <<>>)

\* C22: each ingestor emits one entry per non-skipped source row, in source
\* order; two identical non-skipped rows give two entries.
C22_OrderKeptNothingMerged ==
    /\ TimecardResolved =>
          Val(timecardPromise).value
             = [i \in 1..Len(TimecardRowsKept) |-> EntryOf(TimecardRowsKept[i])]
    /\ SheetResolved =>
          SheetEntries
             = [i \in 1..Len(SheetRowsKept) |-> BreakSheetEntryOf(SheetRowsKept[i])]

\* the date line, the header line and the same full line twice: two entries
C22_Witness ==
    /\ SheetResolved
    /\ Val(breakSheetFile).lines = <<DateLine, HeaderLine, FullLine, FullLine>>
    /\ Len(SheetEntries) = 2
    /\ SheetEntries[1] = SheetEntries[2]
    /\ SheetEntries[1].breakDuration = Some(30)

\* the ingestion call of the behaviour: its file and its promise
IngestedFile == IF timecardFile # None THEN Val(timecardFile) ELSE Val(breakSheetFile)

IngestionPromise ==
    IF timecardFile # None THEN Val(timecardPromise) ELSE Val(breakSheetPromise)

\* the tabular parse reported a failure
ParseFailed == IngestedFile.errors # <<>> \/ IngestedFile.failure # None

\* C23: when the tabular parse reports a failure the ingestion call rejects
\* with the parser's message and never resolves with entries; otherwise it
\* resolves, whatever the rows hold.
C23_ParseFailureRejects ==
    Ingested =>
        IF ParseFailed
        THEN /\ IngestionPromise.state = "rejected"
             /\ \/ Some(IngestionPromise.reason[2]) = IngestedFile.failure
                \/ \E k \in 1..Len(IngestedFile.errors) :
                      IngestionPromise.reason[2] = IngestedFile.errors[k]
        ELSE IngestionPromise.state = "fulfilled"

(***************************************************************************)
(* Properties of the arrays handed to detectTimecardGaps and               *)
(* generateDiscrepancyReport (checked under SpecFrame).                    *)
(***************************************************************************)

\* C25: after either call the timecardEntries and breakSheetEntries arrays
\* hold the same entries, with the same field values, in the same order as
\* before the call.
C25_InputsLeftUnchanged ==
    [][pc = "frame" => (heap'[1] = heap[1] /\ heap'[2] = heap[2])]_vars

\* the report was built from rows out of time order, one of another date:
\* the groups were sorted and filtered in arrays of their own
C25_Witness ==
    /\ pc = "reportFramed"
    /\ Len(heap[1]) = 3
    /\ heap[1][1].payDate = OtherDate
    /\ Val(heap[1][2].timeIn) > Val(heap[1][3].timeIn)
    /\ \E r \in 3..Len(heap) :
          /\ Len(heap[r]) = 2
          /\ Val(heap[r][1].timeIn) < Val(heap[r][2].timeIn)

(***************************************************************************)
(* The closed set of statuses in a report (checked under SpecSheet).       *)
(***************************************************************************)

\* the result rows of employees without a gap and without a matched entry
RowsWithNeither ==
    {i \in 1..Len(Results) :
        Results[i].timecardGap = None /\ Results[i].matchedBreakSheetName = None}

\* C26: no result row has status addition, so summary.noBreakRequired is 0;
\* an employee with neither a gap nor a matched break entry is a match and
\* is counted in summary.matches.
C26_AdditionNeverReported ==
    Reported =>
        /\ \A i \in 1..Len(Results) :
              Results[i].status \in {"match", "mismatch", "deletion", "warning"}
        /\ Summary.noBreakRequired = 0
        /\ \A i \in RowsWithNeither : Results[i].status = "match"
        /\ Summary.matches >= Cardinality(RowsWithNeither)
        /\ Summary.matches = Cardinality({i \in 1..Len(Results) : Results[i].status = "match"})

\* two employees, one with a gap and no matched entry, one with neither
C26_Witness ==
    /\ Reported
    /\ Len(Results) = 2
    /\ Cardinality(RowsWithNeither) = 1
    /\ Summary.matches = 1
    /\ Summary.missingBreakLog = 1
    /\ Summary.noBreakRequired = 0

(***************************************************************************)
(* Properties of the page's handleCompare (checked under SpecPage and      *)
(* SpecPageFair).                                                          *)
(***************************************************************************)
PageRunning == pc \in RunPositions

\* the step in which a run of handleCompare reaches its end
RunEnds == PageRunning /\ pc' = "page"

IsFulfilled(promise) == promise # None /\ Val(promise).state = "fulfilled"

IsRejected(promise) == promise # None /\ Val(promise).state = "rejected"

\* C27: a run of handleCompare has loading true from its start to its end
\* and false when it ends, however it ends; every run that is started ends
\* once its promises settle; parseBreakSheetCSV is called only when the
\* promise of parseTimecardCSV is fulfilled, and the report changes only in
\* a step that leaves both promises fulfilled.
C27_LoadingBracketsEveryRun ==
    /\ [](PageRunning => loading)
    /\ [][RunEnds => ~loading']_vars
    /\ [](breakSheetPromise # None => IsFulfilled(timecardPromise))
    /\ [][pageReport' # pageReport =>
            IsFulfilled(timecardPromise') /\ IsFulfilled(breakSheetPromise')]_vars
    /\ (loading ~> ~loading)

\* a run has ended in catch because the break sheet could not be read, after
\* the timecards were parsed
C27_Witness ==
    /\ pc = "page"
    /\ IsFulfilled(timecardPromise)
    /\ IsRejected(breakSheetPromise)
    /\ ~loading
    /\ error # None

\* C28: a run of handleCompare that fails ends with error set and the
\* report as it was before the run, error being the reason of the rejected
\* promise when a promise was rejected; a run that succeeds ends with error
\* null and the report replaced by the one computed from the two parsed
\* files.
C28_FailureKeepsReportSuccessReplacesIt ==
    [][RunEnds =>
         /\ (IsRejected(timecardPromise') \/ IsRejected(breakSheetPromise')) =>
               /\ error' = Some(IF IsRejected(timecardPromise')
                                THEN Val(timecardPromise').reason
                                ELSE Val(breakSheetPromise').reason)
               /\ pageReport' = pageReport
         /\ \/ error' # None /\ pageReport' = pageReport
            \/ /\ error' = None
               /\ IsFulfilled(timecardPromise')
               /\ IsFulfilled(breakSheetPromise')
               /\ pageReport' = Some(generateDiscrepancyReport(
                                         Val(timecardPromise').value,
                                         Val(breakSheetPromise').value,
                                         CompareDate, DefaultTolerance))]_vars

\* after a run that succeeded, a run on a timecard file that cannot be read
\* has ended: the page holds its error next to the report of the earlier run
C28_Witness ==
    /\ pc = "page"
    /\ IsRejected(timecardPromise)
    /\ error # None
    /\ pageReport # None

====
